---------------------------- MODULE Spec2Model ----------------------------
(***************************************************************************)
(* Verification model of the BiteOpt optimization engine                   *)
(* (src/scipybiteopt/biteaux.h, biteopt.h, spheropt.h).                    *)
(*                                                                         *)
(* Costs are small integers; the tolerance 2^-52 of CBitePop::isEqual is   *)
(* scaled to 2^-EqTolBits, so that two different costs can compare equal.  *)
(* The value 1e300 is the cost level CostNaNFix, above every cost the      *)
(* objective returns.  Fixed-point parameters are integers with a mantissa *)
(* of IntMantBits bits; real numbers are exact rationals <<num, den>>.     *)
(* A slot of a population that the code has allocated but not yet written  *)
(* is marked Stored = FALSE.                                               *)
(***************************************************************************)
EXTENDS Integers, Naturals, Sequences, FiniteSets, TLC

(***************************************************************************)
(* Bounds of the model.                                                    *)
(***************************************************************************)
MaxPopSize == 2
\* SpecTie holds a population of TiePopSize records: the least size at which
\* a replacement in place differs from a splice.
TiePopSize == 3
MaxCost == 2
\* Mantissa size of the fixed-point parameter values (58 bits for the
\* int64_t storage of the code), scaled down.
IntMantBits == 1
\* CBiteRnd::get() yields the multiples of 2^-RndBits in [0, 1) (53 bits in
\* the code).
RndBits == 1
\* Population size of the embedded CSpherOpt (11 + PopSize / 3 in the code).
SphPopSize == 1
\* The stall thresholds of the code are multiples of 64 evaluations
\* (ParamCount * 64, ParamCount * 128, 128 * N * stopc); StallUnit stands
\* for the 64.
StallUnit == 1
\* CBitePop::isEqual takes two costs as equal when they differ by less than
\* 2^-EqTolBits of the sum of their magnitudes (etol = 0x1p-52 in the code).
EqTolBits == 1
\* CBiteOpt::optimize counts the rejected steps in StallCount without a
\* limit; the model follows an object up to this count.
MaxStall == 2
\* biteopt_minimize is called with M up to MaxDepth, attc up to MaxAttempts
\* and iter up to MaxIter, for at most MaxSteps steps in all attempts.
MaxDepth == 2
MaxAttempts == 2
MaxIter == 4
MaxSteps == 8
\* CBitePop::updateCentroid adds up at most 2^IntOverBits - 1 vectors at a
\* time (IntOverBits is 5 for the int64_t storage of the code).
IntOverBits == 2
\* SpecCent holds populations of up to CentPopSize vectors, whose values are
\* multiples of CentUnit.
CentPopSize == 4
CentUnit == 4
\* A CBiteSelBase object has SlotCount choice vectors of Count * SparseMul
\* entries (both 5 in the code), for Count from 2 to MaxChoices choices; its
\* random draws are the multiples of 2^-SelRndBits in [0, 1).
SlotCount == 2
SparseMul == 2
MaxChoices == 2
SelRndBits == 4
\* A CBiteParPops object has up to MaxParPops parallel populations (5 in
\* CBiteOpt).
MaxParPops == 5
PushPopSize == 3
PushParPops == 2
\* SpecDE: the difference pairs of a step (3 in the code)
PairCount == 2
\* SpecFill: calls of init after the first one, and steps after a fill
MaxRuns == 1
MaxFilledSteps == 2
\* SpecBind passes lists of up to MaxBindLen numbers from 0 .. MaxBound.
MaxBindLen == 2
MaxBound == 2
\* SpecDeep follows a CBiteOptDeep of up to DeepMaxCount objects for
\* DeepMaxSteps calls of optimize.
DeepMaxCount == 3
DeepMaxSteps == 6

\* The model optimizes over one dimension: a parameter vector has the
\* single coordinate 1.
Dims == {1}
ParamCount == Cardinality(Dims)

Costs == 0 .. MaxCost
\* Values returned by the objective function: a cost, or NaN.
CostNaN == 0 - 1
ObjValues == Costs \cup {CostNaN}
\* The cost level that stands for 1e300: above every sum of costs that an
\* average of the model is taken of.
CostNaNFix == 1000 * (MaxCost + 1)
ParamVals == {0, 1}
Vectors == [Dims -> ParamVals]
ZeroVec == [d \in Dims |-> 0]

VARIABLES
    pop,    \* a CBitePop object (SpecPop)
    call,   \* the latest CBitePop call: name, arguments, returned value
    wrap,   \* the latest application of a wrap function (SpecWrap)
    par,    \* a CBiteOpt object reduced to its objective function
            \* evaluations, with its CSpherOpt ParOpt (SpecPar)
    core,   \* a CBiteOpt object with its population and its place in a
            \* CBiteOptDeep (SpecCore)
    drv,    \* a call of biteopt_minimize with its CBiteOptDeep (Spec)
    cent,   \* a filled CBitePop object with its centroid (SpecCent)
    bsel,   \* a CBiteSelBase object (SpecSel)
    pps,    \* the centroids of the parallel populations of a CBiteParPops
            \* object and a candidate vector (SpecParPops)
    ens,    \* a CBiteOptDeep object (SpecDeep)
    feed,   \* a CBiteOpt object with the selectors that wait for the
            \* outcome of a step (SpecFeed)
    mig,    \* a CBiteOpt object and the object PushOpt that its steps push
            \* solutions into, with its parallel populations (SpecPush)
    bind    \* the latest call of minimize_func of the Python extension
            \* (SpecBind)

popVars == <<pop, call>>
wrapVars == <<wrap>>
parVars == <<par>>
coreVars == <<core>>
drvVars == <<drv>>
centVars == <<cent>>
selVars == <<bsel>>
ppsVars == <<pps>>
ensVars == <<ens>>
feedVars == <<feed>>
migVars == <<mig>>
bindVars == <<bind>>
unitVars == <<centVars, selVars, ppsVars, ensVars, feedVars, migVars, bindVars>>
vars == <<pop, call, wrap, par, core, drv, cent, bsel, pps, ens, feed, mig,
         bind>>
exceptPop == <<wrapVars, parVars, coreVars, drvVars, unitVars>>
exceptWrap == <<popVars, parVars, coreVars, drvVars, unitVars>>
exceptPar == <<popVars, wrapVars, coreVars, drvVars, unitVars>>
exceptCore == <<popVars, wrapVars, parVars, drvVars, unitVars>>
exceptDrv == <<popVars, wrapVars, parVars, coreVars, unitVars>>
mainVars == <<popVars, wrapVars, parVars, coreVars, drvVars>>
exceptCent == <<mainVars, selVars, ppsVars, ensVars, feedVars, migVars, bindVars>>
exceptSel == <<mainVars, centVars, ppsVars, ensVars, feedVars, migVars, bindVars>>
exceptPps == <<mainVars, centVars, selVars, ensVars, feedVars, migVars, bindVars>>
exceptEns == <<mainVars, centVars, selVars, ppsVars, feedVars, migVars, bindVars>>
exceptFeed == <<mainVars, centVars, selVars, ppsVars, ensVars, migVars, bindVars>>
exceptMig == <<mainVars, centVars, selVars, ppsVars, ensVars, feedVars, bindVars>>
exceptBind == <<mainVars, centVars, selVars, ppsVars, ensVars, feedVars, migVars>>

(***************************************************************************)
(* Arithmetic.  A real number is a pair <<n, d>> with d > 0 in lowest      *)
(* terms.  The results of the IEEE operations that have no real value are  *)
(* <<1, 0>> (+infinity), <<-1, 0>> (-infinity) and <<0, 0>> (NaN).         *)
(* Rounding of the double type is not represented.                         *)
(***************************************************************************)
\* F applied to the value of x
Bind(x, F(_)) == CHOOSE y \in {F(z) : z \in {x}} : TRUE

RECURSIVE Pow2(_)
Pow2(k) == IF k = 0 THEN 1 ELSE 2 * Pow2(k - 1)

Abs(n) == IF n < 0 THEN -n ELSE n

Sgn(n) == IF n < 0 THEN -1 ELSE IF n > 0 THEN 1 ELSE 0

RECURSIVE GCD(_, _)
GCD(a, b) == IF b = 0 THEN a ELSE GCD(b, a % b)

Reduce(n, d) ==
    IF d = 0 THEN <<Sgn(n), 0>>
    ELSE LET g == GCD(Abs(n), Abs(d))
         IN  <<(Sgn(d) * n) \div g, Abs(d) \div g>>

RInt(k) == <<k, 1>>
NaN == <<0, 0>>
IsNaN(a) == a = NaN
IsFinite(a) == a[2] # 0

RNeg(a) == <<-a[1], a[2]>>

RAdd(a, b) ==
    IF a[2] = 0 /\ b[2] = 0
    THEN (IF a = b THEN a ELSE NaN)
    ELSE Reduce(a[1] * b[2] + b[1] * a[2], a[2] * b[2])

RSub(a, b) == RAdd(a, RNeg(b))

RMul(a, b) == Reduce(a[1] * b[1], a[2] * b[2])

RDiv(a, b) == Reduce(a[1] * b[2] * Sgn(b[1]), a[2] * Abs(b[1]))

\* a < b; every comparison with NaN is false
RLt(a, b) ==
    /\ ~IsNaN(a) /\ ~IsNaN(b)
    /\ IF a[2] = 0 \/ b[2] = 0
       THEN (IF a[2] = 0 /\ b[2] = 0 THEN a[1] < b[1]
             ELSE IF a[2] = 0 THEN a[1] < 0 ELSE b[1] > 0)
       ELSE a[1] * b[2] < b[1] * a[2]

RGt(a, b) == RLt(b, a)

RLe(a, b) == ~IsNaN(a) /\ ~IsNaN(b) /\ ~RLt(b, a)

\* conversion of a finite double to an integer type: truncation toward zero
TruncToInt(a) ==
    IF a[1] >= 0 THEN a[1] \div a[2] ELSE -((-a[1]) \div a[2])

\* results of CBiteRnd::get() and of CBiteRnd::getRaw() (the bits of
\* getRaw() above the mantissa mask are represented by one bit)
RndSteps == Pow2(RndBits)
RndGet == {Reduce(k, RndSteps) : k \in 0 .. RndSteps - 1}
RndRaw == 0 .. Pow2(IntMantBits + 1) - 1

(***************************************************************************)
(* CBitePop                                                                *)
(***************************************************************************)

\* *getRankPtr( PopParams[ k ])
RankAt(P, k) == P.Slots[P.PopParams[k]].Rank

\* PopParams[ k ] as a parameter vector
ParamsAt(P, k) == P.Slots[P.PopParams[k]].Params

\* CBitePop::isEqual: d == 0.0, or d < s * etol
isEqual(a, b) ==
    LET d == IF b - a < 0 THEN a - b ELSE b - a
        s == (IF b < 0 THEN -b ELSE b) + (IF a < 0 THEN -a ELSE a)
    IN  d = 0 \/ d * Pow2(EqTolBits) < s

\* CBitePop::isParams1FartherThan2
RECURSIVE SqDist(_, _, _)
SqDist(p, RefParams, i) ==
    IF i \notin Dims THEN 0
    ELSE (p[i] - RefParams[i]) * (p[i] - RefParams[i]) + SqDist(p, RefParams, i + 1)

isParams1FartherThan2Bad(p1, p2, RefParams) ==
    SqDist(p1, RefParams, 1) >= SqDist(p2, RefParams, 1)

isParams1FartherThan2(p1, p2, RefParams) ==
    SqDist(p1, RefParams, 1) > SqDist(p2, RefParams, 1)

\* CBitePop::initBuffers followed by resetCurPopPos.  The slot buffer is
\* allocated with new[] and not cleared: the content of a slot is
\* indeterminate until updatePop stores a record in it (Stored).
initBuffers(aPopSize) ==
    [ PopSize |-> aPopSize,
      CurPopSize |-> aPopSize,
      CurPopPos |-> 0,
      PopParams |-> [k \in 0 .. aPopSize |-> k],
      Slots |-> [s \in 0 .. aPopSize |->
                    [Rank |-> 0, Params |-> ZeroVec, Stored |-> FALSE]],
      NeedCentUpdate |-> FALSE ]

\* CBitePop::resetCurPopPos
resetCurPopPos(P) ==
    [P EXCEPT !.CurPopSize = P.PopSize, !.CurPopPos = 0, !.NeedCentUpdate = FALSE]

\* CBitePop::incrCurPopSize
incrCurPopSize(P) == [P EXCEPT !.CurPopSize = P.CurPopSize + 1]

\* CBitePop::decrCurPopSize
decrCurPopSize(P) == [P EXCEPT !.CurPopSize = P.CurPopSize - 1]

\* CBitePop::removeSol( p ): the slot of the removed record goes to the
\* index CurPopPos - 1, the records after p move down by one.
removeSolBad(P, p) ==
    IF P.CurPopPos = 0 THEN P
    ELSE LET ri == P.CurPopPos - 1
         IN  [P EXCEPT
                !.CurPopPos = ri,
                !.PopParams = IF p < ri
                              THEN [k \in DOMAIN P.PopParams |->
                                      IF k >= p /\ k < ri
                                      THEN P.PopParams[k + 1]
                                      ELSE P.PopParams[k]]
                              ELSE @]

removeSol(P, p) ==
    IF P.CurPopPos = 0 THEN P
    ELSE LET ri == P.CurPopPos - 1
         IN  [P EXCEPT
                !.CurPopPos = ri,
                !.PopParams = IF p < ri
                              THEN [k \in DOMAIN P.PopParams |->
                                      IF k >= p /\ k < ri
                                      THEN P.PopParams[k + 1]
                                      ELSE IF k = ri THEN P.PopParams[p]
                                      ELSE P.PopParams[k]]
                              ELSE @]

\* The binary search loop of CBitePop::updatePop (while( p < i )).
RECURSIVE BinarySearchBad(_, _, _, _)
BinarySearchBad(P, UpdCost, p, i) ==
    IF p < i
    THEN LET mid == (p + i) \div 2
         IN  IF RankAt(P, mid) <= UpdCost
             THEN BinarySearchBad(P, UpdCost, p, mid)
             ELSE BinarySearchBad(P, UpdCost, mid + 1, i)
    ELSE p

RECURSIVE BinarySearch(_, _, _, _)
BinarySearch(P, UpdCost, p, i) ==
    IF p < i
    THEN LET mid == (p + i) \div 2
         IN  IF RankAt(P, mid) >= UpdCost
             THEN BinarySearch(P, UpdCost, p, mid)
             ELSE BinarySearch(P, UpdCost, mid + 1, i)
    ELSE p

\* The rejection test of CBitePop::updatePop on a full population.
CostAboveWorstBad(P, UpdCost) == UpdCost >= RankAt(P, P.PopSize - 1)

CostAboveWorst(P, UpdCost) == UpdCost > RankAt(P, P.PopSize - 1)

\* CBitePop::updatePop.  Yields the population after the call and the
\* returned value.  The centroid arithmetic is represented by the
\* NeedCentUpdate flag only.
updatePop(P, UpdCost, UpdParams, DoUpdateCentroid, ReplaceThrN8) ==
    LET full == ~(P.CurPopPos < P.PopSize)
        ri == IF full THEN P.PopSize - 1 ELSE P.CurPopPos
    IN  IF full /\ CostAboveWorst(P, UpdCost)
        THEN [pop |-> P, ret |-> P.PopSize]
        ELSE
          LET p == BinarySearch(P, UpdCost, 0, ri)
              IsEqualCost == full /\ isEqual(UpdCost, RankAt(P, p))
              DoReplace == /\ IsEqualCost
                           /\ p # 0
                           /\ p < (P.CurPopSize * ReplaceThrN8) \div 8
                           /\ isParams1FartherThan2(ParamsAt(P, p), UpdParams,
                                  ParamsAt(P, 0))
              rp == IF DoReplace THEN P.PopParams[p] ELSE P.PopParams[ri]
              NewPopParams ==
                  IF DoReplace THEN P.PopParams
                  ELSE [k \in DOMAIN P.PopParams |->
                          IF k = p THEN rp
                          ELSE IF k > p /\ k <= ri THEN P.PopParams[k - 1]
                          ELSE P.PopParams[k]]
              NewNeedCentUpdate ==
                  IF DoUpdateCentroid /\ ~P.NeedCentUpdate
                  THEN P.NeedCentUpdate ELSE TRUE
          IN  [pop |-> [P EXCEPT
                          !.CurPopPos = IF full THEN @ ELSE @ + 1,
                          !.PopParams = NewPopParams,
                          !.Slots[rp] = [Rank |-> UpdCost, Params |-> UpdParams,
                                         Stored |-> TRUE],
                          !.NeedCentUpdate = NewNeedCentUpdate],
               ret |-> IF IsEqualCost THEN P.PopSize ELSE p]

\* CBitePop::updateCentroid.  BatchCount = ( 1 << IntOverBits ) - 1 vectors
\* are added up before the sum is scaled.
BatchCount == Pow2(IntOverBits) - 1

\* tp after "tp[ i ] += p[ i ]" for the c vectors that follow PopParams[ j ]
RECURSIVE AddParams(_, _, _, _)
AddParams(P, tp, j, c) ==
    IF c > 0
    THEN AddParams(P, [i \in Dims |-> tp[i] + ParamsAt(P, j + 1)[i]], j + 1, c - 1)
    ELSE tp

\* (ptype) ( tp[ i ] * cm ), with cm = 1.0 / PopSize
ScaleParams(P, tp) == [i \in Dims |-> TruncToInt(Reduce(tp[i], P.PopSize))]

\* The loop "while( pl > 0 )" of the batched calculation: j is left at the
\* last vector added by a batch, and the next batch starts with a copy of
\* PopParams[ j ].
RECURSIVE CentroidBatches(_, _, _, _, _, _)
CentroidBatches(P, pl, j, cp, tp, DoCopy) ==
    IF pl > 0
    THEN LET c == IF pl > BatchCount THEN BatchCount ELSE pl
             tp1 == AddParams(P, ParamsAt(P, j), j, c - 1)
             sc == ScaleParams(P, tp1)
         IN  CentroidBatches(P, pl - c, j + c - 1,
                 IF DoCopy THEN sc ELSE [i \in Dims |-> cp[i] + sc[i]],
                 tp1, FALSE)
    ELSE [cp |-> cp, tp |-> tp]

\* Yields the population after the call (TmpParams, the vector of the slot
\* PopParams[ PopSize ], holds the last sum) and the vector CentParams.
updateCentroid(P) ==
    LET r == IF P.PopSize <= BatchCount
             THEN Bind(AddParams(P, ParamsAt(P, 0), 0, P.PopSize - 1),
                       LAMBDA tp : [cp |-> ScaleParams(P, tp), tp |-> tp])
             ELSE CentroidBatches(P, P.PopSize, 0, ZeroVec, ZeroVec, TRUE)
    IN  [pop |-> [P EXCEPT !.NeedCentUpdate = FALSE,
                           !.Slots[P.PopParams[P.PopSize]].Params = r.tp],
         CentParams |-> r.cp]

(***************************************************************************)
(* CBiteSelBase, with the selector power 1.5 of every selector of the      *)
(* code (CBiteSel< tCount, spwr100 = 150 >)                                *)
(***************************************************************************)
SelRndSteps == Pow2(SelRndBits)

\* CBiteRnd::getPowInt( 1.5, N1 ) for the draw v = k / SelRndSteps:
\* (int) ( v * sqrt( v ) * N1 ), the largest m with m^2 <= N1^2 * v^3.
getPowIntBad(k, N1) ==
    CHOOSE m \in 0 .. N1 :
        /\ m * m * SelRndSteps * SelRndSteps * SelRndSteps >= N1 * N1 * k * k * k
        /\ m = 0 \/ (m - 1) * (m - 1) * SelRndSteps * SelRndSteps * SelRndSteps
                        < N1 * N1 * k * k * k

getPowInt(k, N1) ==
    CHOOSE m \in 0 .. N1 :
        /\ m * m * SelRndSteps * SelRndSteps * SelRndSteps <= N1 * N1 * k * k * k
        /\ (m + 1) * (m + 1) * SelRndSteps * SelRndSteps * SelRndSteps
               > N1 * N1 * k * k * k

\* CountSp = Count * SparseMul
CountSp(S) == S.Count * SparseMul

\* The slot vector filled by CBiteSelBase::reset before the swap-mixing:
\* spo[ k ] = i for the SparseMul entries of choice i
SelFilledBad(Count) ==
    [q \in 0 .. Count * SparseMul - 1 |-> q \div (SparseMul + 1)]

SelFilled(Count) == [q \in 0 .. Count * SparseMul - 1 |-> q \div SparseMul]

\* The slot vectors that the swap-mixing of reset can leave: the
\* CountSp * 5 swaps of two random positions reach every arrangement of the
\* filled entries.
SelMixed(Count) ==
    {f \in [0 .. Count * SparseMul - 1 -> 0 .. Count - 1] :
        \A c \in 0 .. Count - 1 :
            Cardinality({q \in DOMAIN f : f[q] = c})
                = Cardinality({q \in DOMAIN f : SelFilled(Count)[q] = c})}

\* Sels[ Slot ][ Selp ]; a read outside the slot vectors yields the
\* indeterminate value u.
SelAt(S, Slot, Selp, u) ==
    IF Slot \in 0 .. SlotCount - 1 /\ Selp \in 0 .. CountSp(S) - 1
    THEN S.Sels[Slot][Selp] ELSE u

\* CBiteSelBase::select, with the slot and the position drawn.
selSelect(S, Slot, Selp, u) ==
    [S EXCEPT !.Slot = Slot, !.Selp = Selp, !.Sel = SelAt(S, Slot, Selp, u),
              !.IsSelected = TRUE]

\* Exchange of the pointers Sels[ a ] and Sels[ b ]
SwapSlotsBad(Sels, a, b) == [j \in DOMAIN Sels |-> Sels[j]]

SwapSlots(Sels, a, b) ==
    [j \in DOMAIN Sels |-> IF j = a THEN Sels[b] ELSE IF j = b THEN Sels[a]
                           ELSE Sels[j]]

\* CBiteSelBase::incr
selIncr(S, v) ==
    LET dp == TruncToInt(RMul(RInt(-S.Selp), RMul(v, v)))
        sp == S.Sels[S.Slot]
        np == S.Selp + dp
        sp1 == IF dp < 0
               THEN IF dp = -1
                    THEN [sp EXCEPT ![S.Selp] = sp[S.Selp - 1],
                                    ![S.Selp - 1] = S.Sel]
                    ELSE [q \in DOMAIN sp |->
                            IF q = np THEN S.Sel
                            ELSE IF q > np /\ q <= S.Selp THEN sp[q - 1]
                            ELSE sp[q]]
               ELSE sp
        Sels1 == [S.Sels EXCEPT ![S.Slot] = sp1]
    IN  [S EXCEPT !.Sels = IF S.Slot > 0
                           THEN SwapSlots(Sels1, S.Slot, S.Slot - 1)
                           ELSE Sels1,
                  !.Ptr = IF S.Slot > 0
                          THEN SwapSlots(S.Ptr, S.Slot, S.Slot - 1)
                          ELSE @]

\* CBiteSelBase::decr
selDecr(S) ==
    LET sp == S.Sels[S.Slot]
        sp1 == IF S.Selp < CountSp(S) - 1
               THEN [sp EXCEPT ![S.Selp] = sp[S.Selp + 1],
                               ![S.Selp + 1] = S.Sel]
               ELSE sp
        Sels1 == [S.Sels EXCEPT ![S.Slot] = sp1]
    IN  [S EXCEPT !.Sels = IF S.Slot < SlotCount - 1
                           THEN SwapSlots(Sels1, S.Slot, S.Slot + 1)
                           ELSE Sels1,
                  !.Ptr = IF S.Slot < SlotCount - 1
                          THEN SwapSlots(S.Ptr, S.Slot, S.Slot + 1)
                          ELSE @]

(***************************************************************************)
(* CBiteParPops.  Cents[ k ] is ParPops[ k ] -> getCentroid().             *)
(***************************************************************************)
\* CBiteParPops::calcCentroidDists: the squared distances are calculated
\* for up to 4 centroids at a time.
RECURSIVE calcCentroidDists(_, _, _, _)
calcCentroidDists(Cents, Params, k, s) ==
    IF k < Len(Cents)
    THEN LET pc == IF Len(Cents) - k > 4 THEN 4 ELSE Len(Cents) - k
         IN  calcCentroidDists(Cents, Params, k + pc,
                 s \o [j \in 1 .. pc |-> SqDist(Cents[k + j], Params, 1)])
    ELSE s

\* The loop of CBiteParPops::getMinDistParPop over s[ 1 .. ParPopCount - 1 ]
\* (the sequence s holds s[ i ] at s[i + 1]).
RECURSIVE MinDistScanBad(_, _, _, _)
MinDistScanBad(s, i, pp, d) ==
    IF i < Len(s)
    THEN IF s[i + 1] < d THEN MinDistScanBad(s, i + 1, i, s[i + 1])
         ELSE MinDistScanBad(s, i + 1, pp, d)
    ELSE pp

RECURSIVE MinDistScan(_, _, _, _)
MinDistScan(s, i, pp, d) ==
    IF i < Len(s)
    THEN IF s[i + 1] <= d THEN MinDistScan(s, i + 1, i, s[i + 1])
         ELSE MinDistScan(s, i + 1, pp, d)
    ELSE pp

\* CBiteParPops::getMinDistParPop
getMinDistParPop(Cents, Params) ==
    Bind(calcCentroidDists(Cents, Params, 0, <<>>),
         LAMBDA s : [ParValues |-> s, ret |-> MinDistScan(s, 1, 0, s[1])])

(***************************************************************************)
(* Range wrapping (CBitePop::wrapParam, CBiteOptBase::wrapParamReal)       *)
(***************************************************************************)
IntMantMult == Pow2(IntMantBits)
IntMantMultM == -IntMantMult
IntMantMult2 == 2 * IntMantMult

\* rnd.getRaw() & IntMantMask, with IntMantMask = IntMantMult - 1
MaskMant(raw) == raw % IntMantMult

\* CBitePop< int64_t >::wrapParam: the branch (ptype) 0.25 == 0.
\* rg is the value of rnd.get(), raw the value of rnd.getRaw().
wrapParamBad(v, rg, raw) ==
    IF v < 0
    THEN IF v > IntMantMultM
         THEN TruncToInt(RMul(rg, RInt(-v)))
         ELSE MaskMant(raw)
    ELSE IF v > IntMantMult
         THEN IF v < IntMantMult2
              THEN TruncToInt(RSub(RInt(IntMantMult),
                                   RMul(rg, RInt(v - IntMantMult))))
              ELSE raw
         ELSE v

wrapParam(v, rg, raw) ==
    IF v < 0
    THEN IF v > IntMantMultM
         THEN TruncToInt(RMul(rg, RInt(-v)))
         ELSE MaskMant(raw)
    ELSE IF v > IntMantMult
         THEN IF v < IntMantMult2
              THEN TruncToInt(RSub(RInt(IntMantMult),
                                   RMul(rg, RInt(v - IntMantMult))))
              ELSE MaskMant(raw)
         ELSE v

\* CBitePop< double >::wrapParam: the branch for real storage.
wrapParamDbl(v, rg) ==
    IF RLt(v, RInt(0))
    THEN IF RGt(v, RInt(-1))
         THEN RMul(rg, RNeg(v))
         ELSE rg
    ELSE IF RGt(v, RInt(1))
         THEN IF RLt(v, RInt(2))
              THEN RSub(RInt(1), RMul(rg, RSub(v, RInt(1))))
              ELSE rg
         ELSE v

\* CBiteOptBase::updateDiffValues for one dimension: DiffValues[ i ] and
\* DiffValuesI[ i ] for integer storage (IsInt) and for real storage.
updateDiffValues(MinValue, MaxValue, IsInt) ==
    LET d == RSub(MaxValue, MinValue)
    IN  IF IsInt
        THEN [DiffValue |-> RMul(d, Reduce(1, IntMantMult)),
              DiffValueI |-> RDiv(RInt(IntMantMult), d)]
        ELSE [DiffValue |-> d, DiffValueI |-> RDiv(RInt(1), d)]

\* CBiteOptBase::wrapParamReal for one dimension with bounds minv, maxv and
\* DiffValues[ i ] = dv, rg being the value of rnd.get()
wrapParamReal(minv, maxv, dv, v, rg) ==
    IF RLt(v, minv)
    THEN IF RGt(v, RSub(minv, dv))
         THEN RAdd(minv, RMul(rg, RSub(minv, v)))
         ELSE RAdd(minv, RMul(rg, dv))
    ELSE IF RGt(v, maxv)
         THEN IF RLt(v, RAdd(maxv, dv))
              THEN RSub(maxv, RMul(rg, RSub(v, maxv)))
              ELSE RSub(maxv, RMul(rg, dv))
         ELSE v

\* CBiteOptBase::getRealValue for one dimension
getRealValue(MinValue, DiffValue, NormParam) ==
    RAdd(MinValue, RMul(DiffValue, NormParam))


(***************************************************************************)
(* CBiteOptBase                                                            *)
(***************************************************************************)
\* CBiteOptBase::fixCostNaN
fixCostNaNBad(v) == v

fixCostNaN(v) == IF v = CostNaN THEN CostNaNFix ELSE v

\* CBiteOptBase::updateBestCost; o is the optimizer object.  The default
\* argument p = -1 compares the costs.
updateBestCostBad(o, UpdCost, UpdValues, p) ==
    LET p1 == IF p < 0 /\ UpdCost <= o.BestCost THEN 0 ELSE p
    IN  IF p1 <= 1
        THEN [o EXCEPT !.BestCost = UpdCost, !.BestValues = UpdValues]
        ELSE o

updateBestCost(o, UpdCost, UpdValues, p) ==
    LET p1 == IF p < 0 /\ UpdCost <= o.BestCost THEN 0 ELSE p
    IN  IF p1 = 0
        THEN [o EXCEPT !.BestCost = UpdCost, !.BestValues = UpdValues]
        ELSE o

(***************************************************************************)
(* CSpherOpt.  The object is a record: its CBitePop base (pop, with        *)
(* parameter values in real storage), the members of CBiteOptBase and its  *)
(* own members.  Radius is represented by its class: "pos", "zero", "nan". *)
(***************************************************************************)
EvalFacs == <<Reduce(21, 10), RInt(2), Reduce(19, 10)>>

\* (int) ceil( x ) for x >= 0
CeilToIntBad(x) == x[1] \div x[2]

CeilToInt(x) == (x[1] + x[2] - 1) \div x[2]

\* CSpherOpt::updateDims (PopSize0 > 0) followed by nothing else: the object
\* before its first init().
SpherNew(aPopSize) ==
    [ pop |-> initBuffers(aPopSize),
      BestCost |-> 0, BestValues |-> ZeroVec,
      NewCosts |-> 0, NewValues |-> ZeroVec,
      DoInitEvals |-> FALSE, StallCount |-> 0,
      HiBound |-> RInt(0), AvgCost |-> 0,
      CentParams |-> ZeroVec, Radius |-> "zero",
      EvalFac |-> RInt(2), cure |-> 0, curem |-> 0 ]

\* CSpherOpt::init.  HasInit tells whether InitParams is not NULL; rg holds
\* the rnd.get() of each dimension.
SpherInit(o, MinValues, MaxValues, HasInit, InitParams, rg) ==
    LET c == [o EXCEPT !.pop = resetCurPopPos(o.pop),
                       !.BestCost = CostNaNFix,
                       !.DoInitEvals = TRUE,
                       !.StallCount = 0,
                       !.HiBound = RInt(CostNaNFix),
                       !.AvgCost = 0,
                       !.Radius = "pos",
                       !.EvalFac = RInt(2),
                       !.cure = 0,
                       !.curem = CeilToInt(RMul(RInt(o.pop.PopSize), RInt(2)))]
    IN  IF ~HasInit
        THEN [c EXCEPT !.CentParams = [d \in Dims |-> Reduce(1, 2)],
                       !.DoInitEvals = FALSE]
        ELSE [c EXCEPT !.CentParams = [d \in Dims |->
                 wrapParamDbl(
                    RDiv(RSub(InitParams[d], MinValues[d]),
                         updateDiffValues(MinValues[d], MaxValues[d],
                                          FALSE).DiffValue),
                    rg[d])]]

\* The least and the greatest of a set of numbers
RMin(S) == CHOOSE x \in S : \A y \in S : RLe(x, y)
RMax(S) == CHOOSE x \in S : \A y \in S : RLe(y, x)

\* CSpherOpt::update.  The weights pow( l, CentFac ) are positive, so the
\* new centroid is a mean of the CurPopSize best parameter vectors: NaN if
\* one of them is NaN, their common value if they are equal, and otherwise
\* a value between their minimum and maximum, for which Cent is taken,
\* limited to that range.  sel is the value of select( EvalFacSel, rnd ).
SpherUpdate(o, sel, Cent) ==
    Bind({ParamsAt(o.pop, j) : j \in 0 .. o.pop.CurPopSize - 1}, LAMBDA used :
    LET AnyNaN(d) == \E u \in used : IsNaN(u[d])
        AllEq == \A u1, u2 \in used : u1 = u2
        lo(d) == RMin({u[d] : u \in used})
        hi(d) == RMax({u[d] : u \in used})
    IN  [o EXCEPT
           !.EvalFac = EvalFacs[sel + 1],
           !.CentParams = [d \in Dims |->
               IF AnyNaN(d) THEN NaN
               ELSE IF RLt(Cent[d], lo(d)) THEN lo(d)
               ELSE IF RGt(Cent[d], hi(d)) THEN hi(d)
               ELSE Cent[d]],
           !.Radius = IF \E d \in Dims : AnyNaN(d) THEN "nan"
                      ELSE IF AllEq THEN "zero" ELSE "pos"])

\* CSpherOpt::optimize up to the counting of the evaluation: the vector is
\* taken or sampled, evaluated, and stored.  v holds, for each dimension,
\* the value CentParams[ i ] + Params[ i ] * d * m when it is a number, rg
\* the rnd.get() of wrapParam, fv the value returned by the objective
\* function.
SpherEvaluate(o, MinValues, MaxValues, v, rg, fv) ==
    LET Params == [d \in Dims |->
            IF o.DoInitEvals THEN o.CentParams[d]
            ELSE wrapParamDbl(
                   IF IsNaN(o.CentParams[d]) \/ o.Radius = "nan" THEN NaN
                   ELSE IF o.Radius = "zero" THEN o.CentParams[d]
                   ELSE v[d], rg[d])]
    IN  Bind(Params, LAMBDA prm :
        Bind([d \in Dims |->
                getRealValue(MinValues[d],
                    updateDiffValues(MinValues[d], MaxValues[d],
                                     FALSE).DiffValue,
                    prm[d])], LAMBDA nv :
        Bind(updatePop(o.pop, fixCostNaN(fv), prm, FALSE, 0), LAMBDA r :
        Bind([o EXCEPT !.DoInitEvals = FALSE,
                       !.NewCosts = fixCostNaN(fv),
                       !.NewValues = nv,
                       !.pop = r.pop,
                       !.AvgCost = @ + fixCostNaN(fv),
                       !.cure = @ + 1], LAMBDA o1 :
        updateBestCost(o1, o1.NewCosts, nv, -1)))))

\* The end of an evaluation cycle in CSpherOpt::optimize (cure >= curem)
SpherEndCycle(o, sel, Cent) ==
    Bind(Reduce(o.AvgCost, o.cure), LAMBDA Avg :
    Bind([o EXCEPT !.HiBound = IF RLt(Avg, @) THEN Avg ELSE @,
                   !.pop = resetCurPopPos(@),
                   !.AvgCost = 0,
                   !.cure = 0], LAMBDA o1 :
    Bind(SpherUpdate(o1, sel, Cent), LAMBDA u :
    [u EXCEPT !.curem = CeilToInt(RMul(RInt(u.pop.CurPopSize), u.EvalFac))])))

\* CSpherOpt::optimize; sel and Cent are passed to update().  Yields the
\* object after the call; the returned value is its StallCount.
SpherOptimize(o, MinValues, MaxValues, v, rg, fv, sel, Cent) ==
    Bind(SpherEvaluate(o, MinValues, MaxValues, v, rg, fv), LAMBDA o2 :
    Bind(IF o2.cure >= o2.curem THEN SpherEndCycle(o2, sel, Cent) ELSE o2,
         LAMBDA o3 :
    [o3 EXCEPT !.StallCount =
        IF RLt(RInt(o3.NewCosts), o3.HiBound) THEN 0 ELSE @ + 1]))

(***************************************************************************)
(* Values of the variables that a specification does not use.              *)
(***************************************************************************)
NoCall == [op |-> "init", UpdCost |-> 0, UpdParams |-> ZeroVec, ret |-> 0,
           full |-> FALSE]

NoWrap == [fn |-> "none", minv |-> RInt(0), maxv |-> RInt(0), dv |-> RInt(0),
           v |-> RInt(0), out |-> RInt(0), again |-> FALSE, out2 |-> RInt(0)]

NoPar == [MinValues |-> ZeroVec, MaxValues |-> ZeroVec]

NoCore == [role |-> "none"]

NoDrv == [pc |-> "none"]

NoCent == [op |-> "none"]

NoSel == [op |-> "none"]

NoPps == [op |-> "none"]

NoEns == [op |-> "none"]

NoFeed == [op |-> "none"]

NoMig == [op |-> "none"]

NoBind == [op |-> "none"]

(***************************************************************************)
(* SpecPop: one CBitePop object driven by arbitrary calls.                 *)
(***************************************************************************)
InitPop ==
    /\ \E n \in 1 .. MaxPopSize : pop = initBuffers(n)
    /\ call = NoCall
    /\ bind = NoBind
    /\ mig = NoMig
    /\ feed = NoFeed
    /\ ens = NoEns
    /\ pps = NoPps
    /\ bsel = NoSel
    /\ cent = NoCent
    /\ wrap = NoWrap
    /\ par = NoPar
    /\ core = NoCore
    /\ drv = NoDrv

PopUpdate ==
    \E c \in Costs, v \in Vectors, dc \in BOOLEAN, thr \in {0, 3, 8} :
      LET r == updatePop(pop, c, v, dc, thr)
      IN  /\ pop' = r.pop
          /\ call' = [op |-> "updatePop", UpdCost |-> c, UpdParams |-> v,
                      ret |-> r.ret, full |-> pop.CurPopPos = pop.PopSize,
                      thr |-> thr]
          /\ UNCHANGED exceptPop

PopReset ==
    /\ pop' = resetCurPopPos(pop)
    /\ call' = [NoCall EXCEPT !.op = "resetCurPopPos"]
    /\ UNCHANGED exceptPop

\* incrCurPopSize "can only be called if CurPopSize is less than PopSize, and
\* previously the whole population was filled".
PopIncr ==
    /\ pop.CurPopPos = pop.PopSize
    /\ pop.CurPopSize < pop.PopSize
    /\ pop' = incrCurPopSize(pop)
    /\ call' = [NoCall EXCEPT !.op = "incrCurPopSize"]
    /\ UNCHANGED exceptPop

\* decrCurPopSize "can only be called if CurPopSize is greater than 1, and
\* the whole population was filled".
PopDecr ==
    /\ pop.CurPopPos = pop.PopSize
    /\ pop.CurPopSize > 1
    /\ pop' = decrCurPopSize(pop)
    /\ call' = [NoCall EXCEPT !.op = "decrCurPopSize"]
    /\ UNCHANGED exceptPop

\* removeSol( p ) with p "within the [0; CurPopPos - 1] range"; when the
\* population is empty the call returns at once, whatever p is.
PopRemove ==
    /\ \E p \in 0 .. (IF pop.CurPopPos = 0 THEN 0 ELSE pop.CurPopPos - 1) :
         /\ pop' = removeSol(pop, p)
         /\ call' = [op |-> "removeSol", p |-> p, UpdCost |-> 0,
                     UpdParams |-> ZeroVec, ret |-> 0, full |-> FALSE]
    /\ UNCHANGED exceptPop

NextPop == PopUpdate \/ PopReset \/ PopIncr \/ PopDecr \/ PopRemove

SpecPop == InitPop /\ [][NextPop]_vars

(***************************************************************************)
(* SpecTie: one CBitePop object of TiePopSize records under updatePop,     *)
(* incrCurPopSize and decrCurPopSize.                                      *)
(***************************************************************************)
InitTie ==
    /\ pop = initBuffers(TiePopSize)
    /\ call = NoCall
    /\ bind = NoBind
    /\ mig = NoMig
    /\ feed = NoFeed
    /\ ens = NoEns
    /\ pps = NoPps
    /\ bsel = NoSel
    /\ cent = NoCent
    /\ wrap = NoWrap
    /\ par = NoPar
    /\ core = NoCore
    /\ drv = NoDrv

NextTie == PopUpdate \/ PopIncr \/ PopDecr

SpecTie == InitTie /\ [][NextTie]_vars

(***************************************************************************)
(* SpecWrap: the wrap functions applied to arbitrary arguments, and then   *)
(* applied again to their own result with fresh random draws.              *)
(***************************************************************************)
\* Arguments: fixed-point values on both sides of the branch limits
\* -IntMantMult, 0, IntMantMult and 2 * IntMantMult, and doubles on both
\* sides of -1, 0, 1, 2 (of minv - dv, minv, maxv, maxv + dv), the
\* infinities and NaN.
PtypeSample == (IntMantMultM - IntMantMult - 1) .. (IntMantMult2 + IntMantMult + 1)
DblSample == {Reduce(k, 2) : k \in -7 .. 9} \cup {<<1, 0>>, <<-1, 0>>, NaN}
\* Lower and upper bounds of a dimension, MinValues[ i ] <= MaxValues[ i ]
BoundPairs == {<<-1, 0>>, <<-1, 1>>, <<0, 0>>, <<0, 1>>}

InitWrap ==
    /\ wrap = NoWrap
    /\ pop = initBuffers(1)
    /\ call = NoCall
    /\ bind = NoBind
    /\ mig = NoMig
    /\ feed = NoFeed
    /\ ens = NoEns
    /\ pps = NoPps
    /\ bsel = NoSel
    /\ cent = NoCent
    /\ par = NoPar
    /\ core = NoCore
    /\ drv = NoDrv

WrapInt ==
    \E v \in PtypeSample, rg \in RndGet, raw \in RndRaw :
      /\ wrap' = [NoWrap EXCEPT !.fn = "wrapParam", !.maxv = RInt(IntMantMult),
                     !.v = RInt(v), !.out = RInt(wrapParam(v, rg, raw))]
      /\ UNCHANGED exceptWrap

WrapDbl ==
    \E v \in DblSample, rg \in RndGet :
      /\ wrap' = [NoWrap EXCEPT !.fn = "wrapParamDbl", !.maxv = RInt(1),
                     !.v = v, !.out = wrapParamDbl(v, rg)]
      /\ UNCHANGED exceptWrap

WrapReal ==
    \E b \in BoundPairs, IsInt \in BOOLEAN, v \in DblSample, rg \in RndGet :
      LET minv == RInt(b[1])
          maxv == RInt(b[2])
          dv == updateDiffValues(minv, maxv, IsInt).DiffValue
      IN  /\ wrap' = [NoWrap EXCEPT !.fn = "wrapParamReal", !.minv = minv,
                         !.maxv = maxv, !.dv = dv, !.v = v,
                         !.out = wrapParamReal(minv, maxv, dv, v, rg)]
          /\ UNCHANGED exceptWrap

WrapAgain ==
    /\ wrap.fn # "none"
    /\ ~wrap.again
    /\ \E rg \in RndGet, raw \in RndRaw :
         wrap' = [wrap EXCEPT !.again = TRUE, !.out2 =
            CASE wrap.fn = "wrapParam" ->
                   RInt(wrapParam(TruncToInt(wrap.out), rg, raw))
              [] wrap.fn = "wrapParamDbl" -> wrapParamDbl(wrap.out, rg)
              [] wrap.fn = "wrapParamReal" ->
                   wrapParamReal(wrap.minv, wrap.maxv, wrap.dv, wrap.out, rg)]
    /\ UNCHANGED exceptWrap

NextWrap == WrapInt \/ WrapDbl \/ WrapReal \/ WrapAgain

SpecWrap == InitWrap /\ [][NextWrap]_vars

(***************************************************************************)
(* SpecPar: the objective function evaluations of a CBiteOpt object and of *)
(* its embedded CSpherOpt (ParOpt).  The CBiteOpt object is reduced to the *)
(* members that decide which vectors are evaluated and how ParOpt is       *)
(* driven: the bounds, the fill position, BestValues, UseParOpt.  Its      *)
(* population is not held here, so the outcome of updateBestCost, which    *)
(* depends on the insertion index, is either one.  The object is set up as *)
(* biteopt_minimize does: init() without InitParams.                       *)
(***************************************************************************)
\* Fixed-point candidates before wrapping: generator output is any value.
GenSample == {-1, 0, IntMantMult + 1}
\* Values of CentParams[ i ] + Params[ i ] * d * m
SphSample == {Reduce(1, 2), Reduce(3, 2)}
\* Proposals for the centroid of CSpherOpt::update
UnitGrid == {Reduce(1, 2)}
\* Bounds of a dimension: a degenerate and a proper interval
ParBoundPairs == {<<0, 0>>, <<0, 1>>}
\* Values of the objective function
ParObj == {0, CostNaN}
RndVecs == [Dims -> RndGet]

\* CBiteOpt::init( rnd ) for the members held in par
ParInitObj(o) ==
    [o EXCEPT !.CurPopPos = 0,
              !.UseParOpt = 0,
              !.ParOpt = SpherInit(o.ParOpt, o.MinValues, o.MaxValues, FALSE,
                                   ZeroVec, ZeroVec)]

InitPar ==
    /\ \E b \in [Dims -> ParBoundPairs], n \in {1} :
         par = ParInitObj(
                 [ MinValues |-> [d \in Dims |-> RInt(b[d][1])],
                   MaxValues |-> [d \in Dims |-> RInt(b[d][2])],
                   PopSize |-> n, CurPopPos |-> 0,
                   BestValues |-> ZeroVec, UseParOpt |-> 0,
                   ParOpt |-> SpherNew(SphPopSize),
                   ev |-> [by |-> "none", NewValues |-> ZeroVec] ])
    /\ pop = initBuffers(1)
    /\ call = NoCall
    /\ bind = NoBind
    /\ mig = NoMig
    /\ feed = NoFeed
    /\ ens = NoEns
    /\ pps = NoPps
    /\ bsel = NoSel
    /\ cent = NoCent
    /\ wrap = NoWrap
    /\ core = NoCore
    /\ drv = NoDrv

\* NewValues of the wrapped fixed-point vector: wrapParam, getRealValue
WrappedValues(o, t, rg, raw) ==
    [d \in Dims |->
        getRealValue(o.MinValues[d],
            updateDiffValues(o.MinValues[d], o.MaxValues[d], TRUE).DiffValue,
            RInt(wrapParam(t[d], rg[d], raw[d])))]

\* The vectors that a fill step or a generator step may evaluate
WrappedSet(o) ==
    {WrappedValues(o, t, rg, raw) :
        t \in [Dims -> GenSample], rg \in RndVecs, raw \in [Dims -> RndRaw]}

\* CBiteOpt::optimize, fill step: genInitParams, optcost, updateBestCost.
\* The first record of the population is inserted at index 0.
ParFill ==
    /\ par.CurPopPos < par.PopSize
    /\ \E nv \in WrappedSet(par), best \in BOOLEAN :
             par' = [par EXCEPT
                       !.CurPopPos = @ + 1,
                       !.BestValues = IF best \/ par.CurPopPos = 0
                                      THEN nv ELSE @,
                       !.ev = [by |-> "fill", NewValues |-> nv]]
    /\ UNCHANGED exceptPar

\* CBiteOpt::optimize, generator step (DoEval): wrapParam, getRealValue,
\* optcost, updateBestCost.
ParGen ==
    /\ par.CurPopPos = par.PopSize
    /\ \E nv \in WrappedSet(par), best \in BOOLEAN :
             par' = [par EXCEPT
                       !.BestValues = IF best THEN nv ELSE @,
                       !.ev = [by |-> "gen", NewValues |-> nv]]
    /\ UNCHANGED exceptPar

\* The inputs of CSpherOpt::optimize that the call reads: v and rg when the
\* vector is sampled around the centroid, sel and Cent when the call ends
\* an evaluation cycle (update() is called).
SpherSamples(o) ==
    IF o.DoInitEvals \/ o.Radius # "pos" THEN {[d \in Dims |-> RInt(0)]}
    ELSE [Dims -> SphSample]

SpherDraws(o) ==
    IF o.DoInitEvals THEN {[d \in Dims |-> RInt(0)]} ELSE RndVecs

SpherSels(o) == IF o.cure + 1 >= o.curem THEN 0 .. 2 ELSE {0}

SpherCents(o) ==
    IF o.cure + 1 >= o.curem THEN [Dims -> UnitGrid]
    ELSE {[d \in Dims |-> RInt(0)]}

\* CBiteOpt::optimize with generateSolPar taking ParOpt (UseParOpt = 0,
\* possibly after select( ParOpt2Sel ) has returned 0).  rgi holds the
\* rnd.get() of CSpherOpt::init.
ParSol ==
    /\ par.CurPopPos = par.PopSize
    /\ \E v \in SpherSamples(par.ParOpt), rg \in SpherDraws(par.ParOpt),
          fv \in ParObj, sel \in SpherSels(par.ParOpt),
          Cent \in SpherCents(par.ParOpt), best \in BOOLEAN :
       \E o \in {SpherOptimize(par.ParOpt, par.MinValues, par.MaxValues,
                                v, rg, fv, sel, Cent)} :
         LET sc == o.StallCount
             bv == IF best THEN o.NewValues ELSE par.BestValues
             ReInit == sc # 0 /\ sc > ParamCount * StallUnit
         IN  \E rgi \in IF ReInit THEN RndVecs ELSE {[d \in Dims |-> RInt(0)]} :
               par' = [par EXCEPT
                       !.UseParOpt = IF sc # 0 THEN 1 ELSE 0,
                       !.ParOpt = IF ReInit
                                  THEN SpherInit(o, par.MinValues,
                                                 par.MaxValues, TRUE, bv, rgi)
                                  ELSE o,
                       !.BestValues = bv,
                       !.ev = [by |-> "ParOpt", NewValues |-> o.NewValues]]
    /\ UNCHANGED exceptPar

\* CBiteOpt::optimize with generateSolPar taking ParOpt2 (UseParOpt = 1 and
\* select( ParOpt2Sel ) = 1): one evaluation by ParOpt2, of a vector inside
\* the bounds; a nonzero stall count selects ParOpt.
ParSol2 ==
    /\ par.CurPopPos = par.PopSize
    /\ par.UseParOpt = 1
    /\ \E t \in [Dims -> 0 .. IntMantMult], stalled \in BOOLEAN,
          best \in BOOLEAN :
         LET nv == WrappedValues(par, t, [d \in Dims |-> RInt(0)], ZeroVec)
         IN  par' = [par EXCEPT
                       !.UseParOpt = IF stalled THEN 0 ELSE 1,
                       !.BestValues = IF best THEN nv ELSE @,
                       !.ev = [by |-> "ParOpt2", NewValues |-> nv]]
    /\ UNCHANGED exceptPar

\* CBiteOpt::init( rnd ), as biteopt_minimize calls it for each attempt
ParInit ==
    /\ par.ev.by # "none"
    /\ par' = ParInitObj(par)
    /\ UNCHANGED exceptPar

NextPar == ParFill \/ ParGen \/ ParSol \/ ParSol2 \/ ParInit

SpecPar == InitPar /\ [][NextPar]_vars


(***************************************************************************)
(* CBiteOpt.  The object is a record: its CBitePop base (pop, fixed-point  *)
(* parameter values), BestCost, BestValues, DoInitEvals, StallCount and    *)
(* UseParOpt.  A call of optimize() of the embedded ParOpt or ParOpt2 is   *)
(* reduced to what it hands back: the vector it has evaluated, the cost,   *)
(* and whether its stall count is nonzero.  The secondary populations      *)
(* (ParPops, OldPops, ParOptPop, ParOpt2Pop) are reduced to the costs      *)
(* stored into them (aux).  LastCosts and LastValues are read only in the  *)
(* step that sets them; a step yields them in ev.                          *)
(***************************************************************************)
\* The bounds that CBiteOptMinimize hands to the optimizers
lb == [d \in Dims |-> RInt(0)]
ub == [d \in Dims |-> RInt(1)]

\* NewValues[ i ] = getRealValue( Params, i )
FixedToReal(t) ==
    [d \in Dims |->
        getRealValue(lb[d], updateDiffValues(lb[d], ub[d], TRUE).DiffValue,
                     RInt(t[d]))]

\* TmpParams[ i ] = (ptype) (( LastValues[ i ] - MinValues[ i ]) *
\* DiffValuesI[ i ]) of generateSolPar
RealToFixed(v) ==
    [d \in Dims |->
        TruncToInt(RMul(RSub(v[d], lb[d]),
                        updateDiffValues(lb[d], ub[d], TRUE).DiffValueI))]

\* A finite cost above 1e300, not equal to it under isEqual
CostHuge == 4 * CostNaNFix
\* "No cost": above every cost
NoCost == CostHuge + 1
NoPush == [on |-> FALSE, cost |-> 0, t |-> ZeroVec]

\* A CBiteOpt object after updateDims( N, aPopSize ); BestValues is not
\* written until the first step.
CoreNew(aPopSize) ==
    [ pop |-> initBuffers(aPopSize),
      BestCost |-> CostNaNFix, BestValues |-> lb,
      DoInitEvals |-> TRUE, StallCount |-> 0, UseParOpt |-> 0 ]

\* CBiteOpt::init( rnd ): initCommonVars, UseParOpt = 0
CoreInitObj(o) ==
    [o EXCEPT !.pop = resetCurPopPos(@),
              !.BestCost = CostNaNFix,
              !.DoInitEvals = TRUE, !.StallCount = 0, !.UseParOpt = 0]

\* updatePop finds UpdCost equal (IsEqualCost) to a rank that differs from it
IsNearEqual(P, UpdCost) ==
    /\ ~(P.CurPopPos < P.PopSize)
    /\ ~CostAboveWorst(P, UpdCost)
    /\ UpdCost # RankAt(P, BinarySearch(P, UpdCost, 0, P.PopSize - 1))
    /\ isEqual(UpdCost, RankAt(P, BinarySearch(P, UpdCost, 0, P.PopSize - 1)))

\* What a step has evaluated: the vector LastValues handed to optcost and
\* the fixed cost LastCosts[ 0 ]; calls is the number of calls of optcost
\* in the step, upd tells that the step has called updateBestCost with
\* index 0, near that its updatePop has found the cost equal to a rank that
\* differs from it.
Evaluation(P, cost, nv, calls, upd) ==
    [LastCosts |-> cost, LastValues |-> nv, calls |-> calls, upd |-> upd,
     near |-> IsNearEqual(P, cost)]

\* CBiteOpt::optimize, the branch DoInitEvals: t is the vector of
\* genInitParams, fv the value of the objective function at it.
CoreFillStepBad(o, t, fv) ==
    Bind(fixCostNaN(fv), LAMBDA cost :
    Bind(updatePop(o.pop, cost, t, FALSE, 0), LAMBDA r :
    Bind(FixedToReal(t), LAMBDA nv :
      LET done == r.pop.CurPopPos = r.pop.PopSize
          o1 == [o EXCEPT
                    !.pop = r.pop,
                    !.DoInitEvals = ~done]
      IN  [ o |-> updateBestCost(o1, cost, nv, r.ret),
            sc |-> 0,
            ev |-> Evaluation(o.pop, cost, nv, 1, r.ret = 0),
            push |-> NoPush,
            aux |-> IF done
                    THEN {RankAt(r.pop, k) : k \in 0 .. r.pop.PopSize - 1}
                    ELSE {} ])))

CoreFillStep(o, t, fv) ==
    Bind(fixCostNaN(fv), LAMBDA cost :
    Bind(updatePop(o.pop, cost, t, FALSE, 0), LAMBDA r :
    Bind(FixedToReal(t), LAMBDA nv :
      LET done == r.pop.CurPopPos = r.pop.PopSize
          o1 == [o EXCEPT
                    !.pop = IF done
                            THEN [r.pop EXCEPT !.NeedCentUpdate = FALSE]
                            ELSE r.pop,
                    !.DoInitEvals = ~done]
      IN  [ o |-> updateBestCost(o1, cost, nv, r.ret),
            sc |-> 0,
            ev |-> Evaluation(o.pop, cost, nv, 1, r.ret = 0),
            push |-> NoPush,
            aux |-> IF done
                    THEN {RankAt(r.pop, k) : k \in 0 .. r.pop.PopSize - 1}
                    ELSE {} ])))

\* ParOpt.optimize( rnd ) as generateSolPar sees it: CSpherOpt::optimize
\* evaluates one vector v and keeps the fixed cost in NewCosts[ 0 ].
ParOptEval(v, fv) ==
    [LastValues |-> v, LastCosts |-> fixCostNaN(fv), calls |-> 1]

\* ParOpt2.optimize( rnd ) as generateSolPar sees it, under the same
\* optimizer contract.
ParOpt2Eval(v, fv) ==
    [LastValues |-> v, LastCosts |-> fixCostNaN(fv), calls |-> 1]

\* The optimizer that generateSolPar takes: UseParOpt after
\* select( ParOpt2Sel ) = sel2
TakenParOpt(o, sel2) == IF o.UseParOpt = 1 THEN sel2 ELSE 0

\* if( p > CurPopSize1 )
IsRejectedBad(P, p) == p > P.CurPopSize

IsRejected(P, p) == p > P.CurPopSize - 1

\* if( DoEval && CurPopSize < PopSize )
MayIncrBad(P, DoEval) == DoEval

MayIncr(P, DoEval) == DoEval /\ P.CurPopSize < P.PopSize

\* if( DoEval && CurPopSize > PopSize / 2 )
MayDecrBad(P, DoEval) == DoEval /\ P.CurPopSize > 0

MayDecr(P, DoEval) == DoEval /\ P.CurPopSize > P.PopSize \div 2

\* if( PushOpt != NULL && PushOpt != this && !PushOpt -> DoInitEvals &&
\* p > 1 ), pushReady being the first three conditions
MayPushBad(pushReady, p) == pushReady /\ p > 0

MayPush(pushReady, p) == pushReady /\ p > 1

\* The selectors that the step passes to CBiteOptBase::select before it has
\* a candidate, as far as the model tells the generators apart: MethodSel,
\* and ParOpt2Sel in generateSolPar when UseParOpt is 1.
GenSels(o, in) ==
    {"MethodSel"} \cup
    (IF ~in.DoEval /\ o.UseParOpt = 1 THEN {"ParOpt2Sel"} ELSE {})

\* CBiteOpt::optimize after the fill.  in.DoEval: a generator has left the
\* vector in.t (as wrapParam returns it) and the step evaluates it;
\* otherwise generateSolPar has taken the evaluation of an embedded
\* optimizer (in.v, in.stalled).  in.fv is the value of the objective
\* function, in.incr and in.decr are select( PopChangeIncrSel ) and
\* select( PopChangeDecrSel ), in.pushReady tells that PushOpt is another
\* object that has left its fill.  fb is the call applySelsDecr( rnd ) or
\* applySelsIncr( rnd, v ) of the step, late the selector that the step
\* passes to select after that call.
CoreStep(o, in) ==
    Bind(IF in.DoEval
         THEN [LastValues |-> FixedToReal(in.t),
               LastCosts |-> fixCostNaN(in.fv), calls |-> 1]
         ELSE IF TakenParOpt(o, in.sel2) = 0
              THEN ParOptEval(in.v, in.fv) ELSE ParOpt2Eval(in.v, in.fv),
         LAMBDA e :
    Bind(IF in.DoEval THEN in.t ELSE RealToFixed(e.LastValues), LAMBDA t :
    Bind(updatePop(o.pop, e.LastCosts, t, TRUE, 3), LAMBDA r :
      LET cost == e.LastCosts
          p == r.ret
          u == TakenParOpt(o, in.sel2)
          o1 == [o EXCEPT
                    !.UseParOpt = IF in.DoEval THEN @
                                  ELSE IF in.stalled THEN 1 - u ELSE u]
          OldCost == RankAt(r.pop, r.pop.CurPopSize - 1)
      IN  IF IsRejected(r.pop, p)
          THEN [ o |-> [o1 EXCEPT
                          !.StallCount = @ + 1,
                          !.pop = IF MayIncr(r.pop, in.DoEval) /\ in.incr
                                  THEN incrCurPopSize(r.pop) ELSE r.pop],
                 sc |-> o.StallCount + 1,
                 ev |-> Evaluation(o.pop, cost, e.LastValues, e.calls, FALSE),
                 push |-> NoPush, p |-> p,
                 aux |-> {cost},
                 fb |-> [kind |-> "decr", v |-> RInt(0)],
                 late |-> IF MayIncr(r.pop, in.DoEval)
                          THEN {"PopChangeIncrSel"} ELSE {} ]
          ELSE [ o |-> [updateBestCost(o1, cost, e.LastValues, p) EXCEPT
                          !.StallCount = 0,
                          !.pop = IF MayDecr(r.pop, in.DoEval) /\ in.decr
                                  THEN decrCurPopSize(r.pop) ELSE r.pop],
                 sc |-> 0,
                 ev |-> Evaluation(o.pop, cost, e.LastValues, e.calls, p = 0),
                 push |-> IF MayPush(in.pushReady, p)
                          THEN [on |-> TRUE, cost |-> cost, t |-> t]
                          ELSE NoPush,
                 p |-> p,
                 aux |-> {cost, OldCost},
                 fb |-> [kind |-> "incr",
                         v |-> Reduce(r.pop.CurPopSize - p, r.pop.CurPopSize)],
                 late |-> IF MayDecr(r.pop, in.DoEval)
                          THEN {"PopChangeDecrSel"} ELSE {} ])))

\* PushOpt -> updatePop( LastCosts[ 0 ], TmpParams, true, 3 ) and
\* PushOpt -> updateParPop( LastCosts[ 0 ], TmpParams ), o being PushOpt
CoreReceiveBad(o, cost, t) ==
    [o EXCEPT !.pop = updatePop(o.pop, cost, t, TRUE, 3).pop,
              !.BestCost = IF cost < @ THEN cost ELSE @]

CoreReceive(o, cost, t) ==
    [o EXCEPT !.pop = updatePop(o.pop, cost, t, TRUE, 3).pop]

\* CBitePop::calcLP1Coeff( Count ), rounded to quarters: 0.82 for Count 1,
\* 0.70 for 2, 0.58 for 3, below that and above 0.37 up to Count 5
calcLP1Coeff(Count) == IF Count <= 2 THEN Reduce(3, 4) ELSE Reduce(1, 2)

\* CBitePop::updatePop on a population PP.pop with its centroid
\* PP.CentParams; DoUpdateCentroid is true:
\* cp[ i ] += (ptype) (( UpdParams[ i ] - cp[ i ]) * lpc ) when the vector
\* is stored and NeedCentUpdate is false
updatePopCent(PP, UpdCost, UpdParams, ReplaceThrN8) ==
    LET P == PP.pop
        stored == P.CurPopPos < P.PopSize \/ ~CostAboveWorst(P, UpdCost)
    IN  [pop |-> updatePop(P, UpdCost, UpdParams, TRUE, ReplaceThrN8).pop,
         CentParams |->
            IF stored /\ ~P.NeedCentUpdate
            THEN [i \in Dims |-> PP.CentParams[i] + TruncToInt(
                    RMul(RInt(UpdParams[i] - PP.CentParams[i]),
                         calcLP1Coeff(P.PopSize)))]
            ELSE PP.CentParams]

\* CBiteOpt::updateParPop: p = getMinDistParPop( UpdCost, UpdParams );
\* if( p >= 0 ) ParPops[ p ] -> updatePop( UpdCost, UpdParams, true, 0 )
updateParPop(ParPops, UpdCost, UpdParams) ==
    LET p == getMinDistParPop(
                [k \in 1 .. Len(ParPops) |-> ParPops[k].CentParams],
                UpdParams).ret
    IN  IF p >= 0
        THEN [ParPops EXCEPT ![p + 1] = updatePopCent(@, UpdCost, UpdParams, 0)]
        ELSE ParPops

\* CBitePop::copy( s ) on the population D.pop with its centroid
\* D.CentParams: initBuffers when the sizes differ, the members CurPopSize,
\* CurPopPos and NeedCentUpdate, memcpy( PopParams[ i ], s.PopParams[ i ],
\* PopItemSize ) for i < PopSize, and the centroid unless it needs an update
copyBad(D, S) ==
    LET D0 == IF D.pop.PopSize # S.pop.PopSize
              THEN initBuffers(S.pop.PopSize) ELSE D.pop
    IN  [pop |-> [D0 EXCEPT
                    !.CurPopSize = S.pop.CurPopSize,
                    !.CurPopPos = S.pop.CurPopPos,
                    !.NeedCentUpdate = S.pop.NeedCentUpdate,
                    !.Slots = [q \in DOMAIN D0.Slots |->
                        IF q < D0.PopSize THEN S.pop.Slots[q]
                        ELSE D0.Slots[q]]],
         CentParams |-> IF ~S.pop.NeedCentUpdate THEN S.CentParams
                        ELSE D.CentParams]

copy(D, S) ==
    LET D0 == IF D.pop.PopSize # S.pop.PopSize
              THEN initBuffers(S.pop.PopSize) ELSE D.pop
    IN  [pop |-> [D0 EXCEPT
                    !.CurPopSize = S.pop.CurPopSize,
                    !.CurPopPos = S.pop.CurPopPos,
                    !.NeedCentUpdate = S.pop.NeedCentUpdate,
                    !.Slots = [q \in DOMAIN D0.Slots |->
                        IF \E i \in 0 .. D0.PopSize - 1 : D0.PopParams[i] = q
                        THEN S.pop.Slots[S.pop.PopParams[
                               CHOOSE i \in 0 .. D0.PopSize - 1 :
                                  D0.PopParams[i] = q]]
                        ELSE D0.Slots[q]]],
         CentParams |-> IF ~S.pop.NeedCentUpdate THEN S.CentParams
                        ELSE D.CentParams]

\* The end of the fill in CBiteOpt::optimize: updateCentroid(), then
\* ParPops[ i ] -> copy( *this ) for every parallel population
copyParPops(ParPops, P) ==
    Bind(updateCentroid(P), LAMBDA c :
            [k \in DOMAIN ParPops |-> copy(ParPops[k], c)])

(***************************************************************************)
(* SpecCore: one CBiteOpt object, alone (deep = FALSE) or as one of the    *)
(* objects of a CBiteOptDeep (deep = TRUE).  In a CBiteOptDeep the object  *)
(* is stepped while it is CurOpt (role "cur"); a step that returns a       *)
(* nonzero stall count hands the turn to PushOpt (role "push"), and while  *)
(* the object waits, the steps of the current object may push solutions    *)
(* into it, until that object stalls in turn.  History kept with the       *)
(* object: last, the evaluation of its latest step; EvalMin, the least     *)
(* cost it has evaluated since init; BestEv, the evaluation of the latest  *)
(* step that has called updateBestCost with index 0; Received, a sibling   *)
(* has pushed a solution into the object since init; NearEq, updatePop has *)
(* found an evaluated cost equal (isEqual) to a rank that differs from it. *)
(***************************************************************************)
\* Values of the objective function
CoreObj == {MaxCost - 1, MaxCost, CostNaN, CostHuge}
\* Fixed-point candidates before wrapping
CoreSample == {-1, IntMantMult}
\* The vectors that genInitParams or a generator with wrapParam may leave
CoreWrappedSet ==
    {[d \in Dims |-> wrapParam(t[d], rg[d], raw[d])] :
        t \in [Dims -> CoreSample], rg \in RndVecs, raw \in [Dims -> RndRaw]}
\* The vectors that an embedded optimizer may evaluate
AuxSample == {Reduce(1, 4)}

NoEval == [LastCosts |-> NoCost, LastValues |-> lb]

\* The object with its history after init
CoreStart(o, n, deep, r) ==
    [o |-> o, cap |-> n, deep |-> deep, role |-> r, sc |-> 0,
     last |-> NoEval, EvalMin |-> NoCost, BestEv |-> NoEval,
     Received |-> FALSE, NearEq |-> FALSE]

InitCore ==
    /\ \E n \in 1 .. MaxPopSize, deep \in BOOLEAN, r \in {"cur", "push"} :
         /\ r = "push" => deep
         /\ core = CoreStart(CoreInitObj(CoreNew(n)), n, deep, r)
    /\ pop = initBuffers(1)
    /\ call = NoCall
    /\ bind = NoBind
    /\ mig = NoMig
    /\ feed = NoFeed
    /\ ens = NoEns
    /\ pps = NoPps
    /\ bsel = NoSel
    /\ cent = NoCent
    /\ wrap = NoWrap
    /\ par = NoPar
    /\ drv = NoDrv

\* The object and its history after a step with the outcome res;
\* CBiteOptDeep::optimize: a nonzero sc makes PushOpt the current object.
CoreAfter(c, res) ==
    LET e == [LastCosts |-> res.ev.LastCosts, LastValues |-> res.ev.LastValues]
    IN  [c EXCEPT !.o = res.o,
                  !.sc = res.sc,
                  !.role = IF res.sc # 0 /\ c.deep THEN "push" ELSE "cur",
                  !.last = e,
                  !.EvalMin = IF e.LastCosts < @ THEN e.LastCosts ELSE @,
                  !.BestEv = IF res.ev.upd THEN e ELSE @,
                  !.NearEq = @ \/ res.ev.near]

\* CBiteOpt::optimize, fill step
CoreFill ==
    /\ core.role = "cur"
    /\ core.o.DoInitEvals
    /\ \E t \in CoreWrappedSet, fv \in CoreObj :
         \E res \in {CoreFillStep(core.o, t, fv)} :
           core' = CoreAfter(core, res)
    /\ UNCHANGED exceptCore

\* CBiteOpt::optimize, a step with a generator (DoEval)
CoreGen ==
    /\ core.role = "cur"
    /\ ~core.o.DoInitEvals
    /\ \E t \in CoreWrappedSet, fv \in CoreObj, incr, decr \in BOOLEAN :
         \E res \in {CoreStep(core.o,
                        [DoEval |-> TRUE, t |-> t, v |-> lb, fv |-> fv,
                         incr |-> incr, decr |-> decr, sel2 |-> 0,
                         stalled |-> FALSE, pushReady |-> core.deep])} :
           /\ res.o.StallCount <= MaxStall
           /\ core' = CoreAfter(core, res)
    /\ UNCHANGED exceptCore

\* CBiteOpt::optimize, a step with generateSolPar
CoreSol ==
    /\ core.role = "cur"
    /\ ~core.o.DoInitEvals
    /\ \E v \in [Dims -> AuxSample], fv \in CoreObj, stalled \in BOOLEAN,
          sel2 \in IF core.o.UseParOpt = 1 THEN {0, 1} ELSE {0} :
         \E res \in {CoreStep(core.o,
                        [DoEval |-> FALSE, t |-> ZeroVec, v |-> v, fv |-> fv,
                         incr |-> FALSE, decr |-> FALSE, sel2 |-> sel2,
                         stalled |-> stalled, pushReady |-> core.deep])} :
           /\ res.o.StallCount <= MaxStall
           /\ core' = CoreAfter(core, res)
    /\ UNCHANGED exceptCore

\* The step of a sibling pushes its solution into the object
CorePushed ==
    /\ core.role = "push"
    /\ ~core.o.DoInitEvals
    /\ \E t \in CoreWrappedSet, fv \in CoreObj :
         core' = [core EXCEPT !.o = CoreReceive(core.o, fixCostNaN(fv), t),
                              !.Received = TRUE]
    /\ UNCHANGED exceptCore

\* The current sibling has stalled: CurOpt = PushOpt
CoreResume ==
    /\ core.role = "push"
    /\ core' = [core EXCEPT !.role = "cur"]
    /\ UNCHANGED exceptCore

\* CBiteOpt::init( rnd ) for another attempt
CoreInit ==
    /\ core.EvalMin # NoCost
    /\ \E r \in {"cur", "push"} :
         /\ r = "push" => core.deep
         /\ core' = CoreStart(CoreInitObj(core.o), core.cap, core.deep, r)
    /\ UNCHANGED exceptCore

NextCore ==
    CoreFill \/ CoreGen \/ CoreSol \/ CorePushed \/ CoreResume \/ CoreInit

SpecCore == InitCore /\ [][NextCore]_vars

(***************************************************************************)
(* CBiteOptDeep.  The object is a record: Opts, the CBiteOpt objects, and  *)
(* BestOpt, CurOpt, PushOpt, LastOpt as indices into Opts.                 *)
(***************************************************************************)
\* CBiteOptDeep::updateDims( N, M ); the pointers are not set before init.
DeepNew(M) ==
    [ OptCount |-> M,
      Opts |-> [j \in 0 .. M - 1 |-> CoreNew(MaxPopSize)],
      BestOpt |-> 0, CurOpt |-> 0, PushOpt |-> 0, LastOpt |-> 0,
      StallCount |-> 0 ]

\* CBiteOptDeep::init( rnd ); push is the object that
\* Opts[ rnd.getInt( OptCount )] has yielded as PushOpt.
DeepInit(opt, push) ==
    [opt EXCEPT !.Opts = [j \in DOMAIN opt.Opts |-> CoreInitObj(opt.Opts[j])],
                !.BestOpt = 0, !.CurOpt = 0, !.LastOpt = 0,
                !.StallCount = 0,
                !.PushOpt = IF opt.OptCount = 1 THEN 0 ELSE push]

\* CBiteOptDeep::getBestCost, getBestParams
getBestCost(opt) == opt.Opts[opt.BestOpt].BestCost
getBestParams(opt) == opt.Opts[opt.BestOpt].BestValues

\* The objects that the loop around rnd.getInt( OptCount ) can leave in
\* PushOpt
PushChoicesBad(opt, cur) == 0 .. opt.OptCount - 1

PushChoices(opt, cur) == (0 .. opt.OptCount - 1) \ {cur}

\* The test "if( sc == 0 ) ... else" of CBiteOptDeep::optimize on the value
\* returned by CurOpt -> optimize
HasStalledBad(sc) == sc > 1

HasStalled(sc) == sc # 0

\* The test of CBiteOptDeep::optimize that makes CurOpt the BestOpt:
\* CurOpt -> getBestCost() <= BestOpt -> getBestCost()
IsBestOptBad(CurCost, BestCost) == CurCost >= BestCost

IsBestOpt(CurCost, BestCost) == CurCost <= BestCost

\* CBiteOptDeep::optimize( rnd ).  in holds what the step of CurOpt draws,
\* push the new PushOpt taken when CurOpt stalls.
DeepOptimize(opt, in, push) ==
    LET cur == opt.CurOpt
        single == opt.OptCount = 1
        ready == ~single /\ opt.PushOpt # cur
                   /\ ~opt.Opts[opt.PushOpt].DoInitEvals
    IN
    Bind(IF opt.Opts[cur].DoInitEvals
         THEN CoreFillStep(opt.Opts[cur], in.t, in.fv)
         ELSE CoreStep(opt.Opts[cur], [in EXCEPT !.pushReady = ready]),
         LAMBDA res :
    Bind(IF res.push.on
         THEN [opt.Opts EXCEPT
                 ![cur] = res.o,
                 ![opt.PushOpt] = CoreReceive(opt.Opts[opt.PushOpt],
                                              res.push.cost, res.push.t)]
         ELSE [opt.Opts EXCEPT ![cur] = res.o],
         LAMBDA Opts1 :
      LET best == IF IsBestOpt(Opts1[cur].BestCost, Opts1[opt.BestOpt].BestCost)
                  THEN cur ELSE opt.BestOpt
          opt1 == IF single
                  THEN [opt EXCEPT !.Opts = Opts1, !.StallCount = res.sc]
                  ELSE IF ~HasStalled(res.sc)
                  THEN [opt EXCEPT !.Opts = Opts1, !.LastOpt = cur,
                                   !.BestOpt = best, !.StallCount = 0]
                  ELSE [opt EXCEPT !.Opts = Opts1, !.LastOpt = cur,
                                   !.BestOpt = best,
                                   !.StallCount = @ + 1,
                                   !.CurOpt = opt.PushOpt,
                                   !.PushOpt = IF opt.OptCount = 2
                                               THEN 1 - opt.PushOpt
                                               ELSE push]
      IN  [opt |-> opt1, sc |-> opt1.StallCount, ev |-> res.ev,
           aux |-> res.aux, pushed |-> res.push.on, csc |-> res.sc]))

(***************************************************************************)
(* biteopt_minimize.  drv holds the arguments (iter, M, attc, stopc, the   *)
(* value behind f_minp), the locals of the function, the outputs x and     *)
(* minf, and the CBiteOptMinimize object opt.  History kept with it:       *)
(* steps, the calls of opt.optimize; calls, the calls of the objective     *)
(* function; evald, the vectors handed to it; allNaN, it has returned NaN  *)
(* every time; auxFix, every cost stored into a secondary population was   *)
(* 1e300; hit, a step has ended with the best cost at or below the target, *)
(* hitLast, that step was the last step of the last attempt; stallStop, an *)
(* attempt has ended on the stall count; ends, the best cost and vector of *)
(* opt at the end of each attempt.                                         *)
(***************************************************************************)
RECURSIVE SqrtFrom(_, _)
SqrtFrom(n, r) == IF (r + 1) * (r + 1) > n THEN r ELSE SqrtFrom(n, r + 1)

\* const int useiter = (int) ( iter * sqrt( (double) M ))
useiter(iter, M) == SqrtFrom(iter * iter * M, 0)

\* const int sct = ( stopc <= 0 ? 0 : 128 * N * stopc )
sct(stopc) == IF stopc <= 0 THEN 0 ELSE 2 * StallUnit * ParamCount * stopc

\* if( f_minp != 0 && opt.getBestCost() <= *f_minp )
TargetReachedBad(d, opt) == d.hasTarget /\ getBestCost(opt) < d.target

TargetReached(d, opt) == d.hasTarget /\ getBestCost(opt) <= d.target

\* if( sct > 0 && sc >= sct )
StallReachedBad(d, sc) == sct(d.stopc) > 0 /\ sc > sct(d.stopc)

StallReached(d, sc) == sct(d.stopc) > 0 /\ sc >= sct(d.stopc)

\* evals++ before a break
EvalsOnBreakBad(evals) == evals

EvalsOnBreak(evals) == evals + 1

\* if( k == 0 || opt.getBestCost() <= *minf )
IsBetterAttemptBad(d, opt) == d.k = 0 \/ getBestCost(opt) >= d.minf

IsBetterAttempt(d, opt) == d.k = 0 \/ getBestCost(opt) <= d.minf

\* Values of the objective function
DrvObj == {MaxCost - 1, MaxCost, CostNaN}
\* The targets behind f_minp
DrvTargets == {MaxCost - 1}

\* The state at the head of the loop over the attempts; x and minf are the
\* caller's and are not read before they are written.
DrvNew(iter, M, attc, stopc, hasTarget, target) ==
    [ iter |-> iter, M |-> M, attc |-> attc, stopc |-> stopc,
      hasTarget |-> hasTarget, target |-> target,
      opt |-> DeepNew(M),
      pc |-> "attempt", k |-> 0, i |-> 0, evals |-> 0, IsFinished |-> FALSE,
      x |-> lb, minf |-> NoCost,
      steps |-> 0, calls |-> 0, evald |-> {}, allNaN |-> TRUE,
      auxFix |-> TRUE, hit |-> FALSE, hitLast |-> FALSE,
      stallStop |-> FALSE, ends |-> {} ]

Init ==
    /\ \E iter \in 1 .. MaxIter, M \in 1 .. MaxDepth, attc \in 1 .. MaxAttempts,
          stopc \in {0, 1}, hasTarget \in BOOLEAN, target \in DrvTargets :
         /\ useiter(iter, M) * attc <= MaxSteps
         /\ drv = DrvNew(iter, M, attc, stopc, hasTarget, target)
    /\ pop = initBuffers(1)
    /\ call = NoCall
    /\ bind = NoBind
    /\ mig = NoMig
    /\ feed = NoFeed
    /\ ens = NoEns
    /\ pps = NoPps
    /\ bsel = NoSel
    /\ cent = NoCent
    /\ wrap = NoWrap
    /\ par = NoPar
    /\ core = NoCore

\* for( k = 0; k < attc; k++ ) { opt.init( rnd ); ...
DrvAttempt ==
    /\ drv.pc = "attempt"
    /\ drv.k < drv.attc
    /\ \E push \in IF drv.M = 1 THEN {0} ELSE PushChoices(drv.opt, 0) :
         drv' = [drv EXCEPT
                   !.opt = DeepInit(drv.opt, push),
                   !.i = 0, !.IsFinished = FALSE,
                   !.pc = IF 0 < useiter(drv.iter, drv.M)
                          THEN "iter" ELSE "after"]
    /\ UNCHANGED exceptDrv

\* What the step of the current object draws
StepInputs(o) ==
    IF o.DoInitEvals
    THEN {[DoEval |-> TRUE, t |-> t, v |-> lb, fv |-> fv, incr |-> FALSE,
           decr |-> FALSE, sel2 |-> 0, stalled |-> FALSE,
           pushReady |-> FALSE] : t \in CoreWrappedSet, fv \in DrvObj}
    ELSE {[DoEval |-> TRUE, t |-> t, v |-> lb, fv |-> fv, incr |-> incr,
           decr |-> decr, sel2 |-> 0, stalled |-> FALSE,
           pushReady |-> FALSE] :
             t \in CoreWrappedSet, fv \in DrvObj, incr \in BOOLEAN,
             decr \in BOOLEAN}
         \cup
         {[DoEval |-> FALSE, t |-> ZeroVec, v |-> v, fv |-> fv,
           incr |-> FALSE, decr |-> FALSE, sel2 |-> sel2,
           stalled |-> stalled, pushReady |-> FALSE] :
             v \in [Dims -> AuxSample], fv \in DrvObj,
             sel2 \in IF o.UseParOpt = 1 THEN {0, 1} ELSE {0},
             stalled \in BOOLEAN}

\* One pass of for( i = 0; i < useiter; i++ ): opt.optimize( rnd ) and the
\* two stopping tests
DrvStep ==
    /\ drv.pc = "iter"
    /\ \E in \in StepInputs(drv.opt.Opts[drv.opt.CurOpt]),
          push \in IF drv.M <= 2 THEN {0}
                   ELSE PushChoices(drv.opt, drv.opt.PushOpt) :
       \E res \in {DeepOptimize(drv.opt, in, push)} :
         LET d1 == [drv EXCEPT
                      !.opt = res.opt,
                      !.steps = @ + 1,
                      !.calls = @ + res.ev.calls,
                      !.evald = @ \cup {res.ev.LastValues},
                      !.allNaN = @ /\ in.fv = CostNaN,
                      !.auxFix = @ /\ res.aux \subseteq {CostNaNFix},
                      !.hit = @ \/ (drv.hasTarget
                                      /\ getBestCost(res.opt) <= drv.target),
                      !.hitLast = drv.hasTarget
                                    /\ getBestCost(res.opt) <= drv.target
                                    /\ drv.k = drv.attc - 1
                                    /\ drv.i = useiter(drv.iter, drv.M) - 1]
         IN  drv' =
               IF TargetReached(drv, res.opt)
               THEN [d1 EXCEPT !.evals = EvalsOnBreak(@),
                               !.IsFinished = TRUE, !.pc = "after"]
               ELSE IF StallReached(drv, res.sc)
               THEN [d1 EXCEPT !.evals = EvalsOnBreak(@), !.pc = "after",
                               !.stallStop = TRUE]
               ELSE [d1 EXCEPT !.i = @ + 1,
                               !.pc = IF drv.i + 1 < useiter(drv.iter, drv.M)
                                      THEN "iter" ELSE "after"]
    /\ UNCHANGED exceptDrv

\* After the loop over i: evals += i, the copy of the better result, and
\* the break on IsFinished or k++
DrvEndAttempt ==
    /\ drv.pc = "after"
    /\ LET better == IsBetterAttempt(drv, drv.opt)
           d1 == [drv EXCEPT
                    !.evals = @ + drv.i,
                    !.x = IF better THEN getBestParams(drv.opt) ELSE @,
                    !.minf = IF better THEN getBestCost(drv.opt) ELSE @,
                    !.ends = @ \cup {[cost |-> getBestCost(drv.opt),
                                      values |-> getBestParams(drv.opt)]}]
       IN  drv' = IF drv.IsFinished
                  THEN [d1 EXCEPT !.pc = "done"]
                  ELSE [d1 EXCEPT !.k = @ + 1, !.pc = "attempt"]
    /\ UNCHANGED exceptDrv

\* return( evals )
DrvReturn ==
    /\ drv.pc = "attempt"
    /\ drv.k >= drv.attc
    /\ drv' = [drv EXCEPT !.pc = "done"]
    /\ UNCHANGED exceptDrv

Next == DrvAttempt \/ DrvStep \/ DrvEndAttempt \/ DrvReturn

Spec == Init /\ [][Next]_vars

(***************************************************************************)
(* SpecDeep: one CBiteOptDeep object of two or more CBiteOpt objects,      *)
(* initialized and stepped.  History kept with it: n, the calls of         *)
(* optimize; pre, the roles and the stall count before the latest call;    *)
(* csc, the value that the optimize function of the object stepped has     *)
(* returned; stepped, the objects stepped since init.                      *)
(***************************************************************************)
\* Values of the objective function, one of them above 1e300
DeepObj == {MaxCost - 1, MaxCost, CostHuge}

DeepInputs(o) == {[in EXCEPT !.fv = fv] : in \in StepInputs(o), fv \in DeepObj}

Roles(opt) == [CurOpt |-> opt.CurOpt, PushOpt |-> opt.PushOpt,
               StallCount |-> opt.StallCount]

InitDeep ==
    /\ \E M \in 2 .. DeepMaxCount :
         ens = [op |-> "new", opt |-> DeepNew(M), n |-> 0,
                pre |-> Roles(DeepNew(M)), csc |-> 0, stepped |-> {}]
    /\ pop = initBuffers(1)
    /\ call = NoCall
    /\ bind = NoBind
    /\ mig = NoMig
    /\ feed = NoFeed
    /\ pps = NoPps
    /\ bsel = NoSel
    /\ cent = NoCent
    /\ wrap = NoWrap
    /\ par = NoPar
    /\ core = NoCore
    /\ drv = NoDrv

DeepInitCall ==
    /\ ens.op = "new"
    /\ \E push \in PushChoices(ens.opt, 0) :
         ens' = [ens EXCEPT !.op = "init", !.opt = DeepInit(ens.opt, push),
                            !.pre = Roles(ens.opt)]
    /\ UNCHANGED exceptEns

DeepStep ==
    /\ ens.op \in {"init", "optimize"}
    /\ ens.n < DeepMaxSteps
    /\ \E in \in DeepInputs(ens.opt.Opts[ens.opt.CurOpt]),
          push \in IF ens.opt.OptCount <= 2 THEN {0}
                   ELSE PushChoices(ens.opt, ens.opt.PushOpt) :
       \E res \in {DeepOptimize(ens.opt, in, push)} :
         ens' = [op |-> "optimize", opt |-> res.opt, n |-> ens.n + 1,
                 pre |-> Roles(ens.opt), csc |-> res.csc,
                 stepped |-> ens.stepped \cup {ens.opt.CurOpt}]
    /\ UNCHANGED exceptEns

NextDeep == DeepInitCall \/ DeepStep

SpecDeep == InitDeep /\ [][NextDeep]_vars

(***************************************************************************)
(* SpecFeed: one CBiteOpt object, not in a CBiteOptDeep, with ApplySels,   *)
(* the selectors passed to CBiteOptBase::select since the latest           *)
(* applySelsIncr or applySelsDecr.  History kept with it: cost, the cost   *)
(* of the candidate of the latest step; sc, the value the step has         *)
(* returned; fb, the call applySelsIncr or applySelsDecr of the step, and  *)
(* sels, the selectors it was applied to; gen and late, the selectors      *)
(* that the step has passed to select before and after that call.          *)
(***************************************************************************)
FeedObj == {0, MaxCost - 1, MaxCost}

NoFb == [kind |-> "none", v |-> RInt(0)]

FeedStart(o) ==
    [op |-> "init", o |-> o, ApplySels |-> {}, cost |-> 0, sc |-> 0,
     fb |-> NoFb, sels |-> {}, gen |-> {}, late |-> {}]

InitFeed ==
    /\ \E n \in 1 .. MaxPopSize : feed = FeedStart(CoreInitObj(CoreNew(n)))
    /\ pop = initBuffers(1)
    /\ call = NoCall
    /\ bind = NoBind
    /\ mig = NoMig
    /\ ens = NoEns
    /\ pps = NoPps
    /\ bsel = NoSel
    /\ cent = NoCent
    /\ wrap = NoWrap
    /\ par = NoPar
    /\ core = NoCore
    /\ drv = NoDrv

\* CBiteOpt::optimize, fill step
FeedFill ==
    /\ feed.o.DoInitEvals
    /\ \E t \in CoreWrappedSet, fv \in FeedObj :
         \E res \in {CoreFillStep(feed.o, t, fv)} :
           feed' = [feed EXCEPT !.op = "fill", !.o = res.o,
                      !.cost = res.ev.LastCosts, !.sc = res.sc, !.fb = NoFb,
                      !.sels = {}, !.gen = {}, !.late = {}]
    /\ UNCHANGED exceptFeed

\* CBiteOpt::optimize after the fill: the selectors of the generation join
\* ApplySels, the call fb empties it, the selector late joins it.
FeedStep ==
    /\ ~feed.o.DoInitEvals
    /\ \E in \in StepInputs(feed.o), fv \in FeedObj :
       \E res \in {CoreStep(feed.o, [in EXCEPT !.fv = fv])} :
         /\ res.o.StallCount <= MaxStall
         /\ feed' = [op |-> "optimize", o |-> res.o,
                     ApplySels |-> res.late,
                     cost |-> res.ev.LastCosts, sc |-> res.sc, fb |-> res.fb,
                     sels |-> feed.ApplySels \cup GenSels(feed.o, in),
                     gen |-> GenSels(feed.o, in), late |-> res.late]
    /\ UNCHANGED exceptFeed

\* CBiteOpt::init( rnd ): initCommonVars sets ApplySelsCount = 0
FeedInit ==
    /\ feed.op # "init"
    /\ feed' = FeedStart(CoreInitObj(feed.o))
    /\ UNCHANGED exceptFeed

NextFeed == FeedFill \/ FeedStep \/ FeedInit

SpecFeed == InitFeed /\ [][NextFeed]_vars

(***************************************************************************)
(* SpecPush: a CBiteOpt object a that is stepped, and the object b that is *)
(* its PushOpt, with the parallel populations of b.  Both are objects of   *)
(* one CBiteOptDeep and have the same population size.  The object that    *)
(* is current stays current through its fill, and b becomes current when  *)
(* a step of a has not accepted its candidate: the fill of b starts after  *)
(* such a step and is not interleaved with steps of a.  The steps of b     *)
(* after its fill are left out.                                            *)
(* last keeps the latest step of a: acc, the step has accepted its         *)
(* candidate (cost, t); p, the index that updatePop has returned; on, the  *)
(* step has pushed the candidate; ready, b had left its fill; k, the index *)
(* of the parallel population of b that was nearest to the candidate.      *)
(***************************************************************************)
\* Values of the objective function: no two of them are equal under
\* isEqual
PushObj == {0, 1, 4, 16}
\* The vectors of genInitParams that the fills draw, and the values of the
\* objective function at them
PushFillSet ==
    {[t |-> t, fv |-> fv] : t \in {v \in CoreWrappedSet : v = ZeroVec},
                            fv \in {0, 16}}

\* What a step of a draws when a generator with wrapParam makes the
\* candidate
PushInputs ==
    {[DoEval |-> TRUE, t |-> t, v |-> lb, fv |-> 0, incr |-> incr,
      decr |-> decr, sel2 |-> 0, stalled |-> FALSE, pushReady |-> FALSE] :
        t \in CoreWrappedSet, incr \in BOOLEAN, decr \in BOOLEAN}

NoStep ==
    [acc |-> FALSE, p |-> 0, on |-> FALSE, cost |-> 0, t |-> ZeroVec,
     ready |-> FALSE, k |-> 0]

InitPush ==
    /\ mig = [op |-> "init",
              a |-> CoreInitObj(CoreNew(PushPopSize)),
              b |-> CoreInitObj(CoreNew(PushPopSize)),
              ParPops |-> [k \in 1 .. PushParPops |->
                             [pop |-> initBuffers(0),
                              CentParams |-> ZeroVec]],
              last |-> NoStep]
    /\ pop = initBuffers(1)
    /\ call = NoCall
    /\ bind = NoBind
    /\ feed = NoFeed
    /\ ens = NoEns
    /\ pps = NoPps
    /\ bsel = NoSel
    /\ cent = NoCent
    /\ wrap = NoWrap
    /\ par = NoPar
    /\ core = NoCore
    /\ drv = NoDrv

\* a -> optimize( rnd ), fill step
PushFill ==
    /\ mig.a.DoInitEvals
    /\ mig.b.pop.CurPopPos \in {0, PushPopSize}
    /\ \E g \in PushFillSet :
         \E res \in {CoreFillStep(mig.a, g.t, g.fv)} :
           mig' = [mig EXCEPT !.op = "fill", !.a = res.o, !.last = NoStep]
    /\ UNCHANGED exceptMig

\* b -> optimize( rnd ), fill step, b being the current object
PushOptFill ==
    /\ mig.b.DoInitEvals
    /\ mig.b.pop.CurPopPos = 0 => mig.op = "optimize" /\ ~mig.last.acc
    /\ \E g \in PushFillSet :
         \E res \in {CoreFillStep(mig.b, g.t, g.fv)} :
           mig' = [mig EXCEPT
                      !.op = "fillPushOpt", !.b = res.o,
                      !.ParPops = IF res.o.DoInitEvals THEN @
                                  ELSE copyParPops(@, res.o.pop),
                      !.last = NoStep]
    /\ UNCHANGED exceptMig

\* a -> optimize( rnd ) after the fill, with PushOpt = b
PushStep ==
    /\ ~mig.a.DoInitEvals
    /\ mig.b.pop.CurPopPos \in {0, PushPopSize}
    /\ \E in \in PushInputs, fv \in PushObj :
       \E res \in {CoreStep(mig.a, [in EXCEPT !.fv = fv,
                                      !.pushReady = ~mig.b.DoInitEvals])} :
         /\ res.o.StallCount <= 1
         /\ mig' = [op |-> "optimize", a |-> res.o,
                    b |-> IF res.push.on
                          THEN CoreReceive(mig.b, res.push.cost, res.push.t)
                          ELSE mig.b,
                    ParPops |-> IF res.push.on
                                THEN updateParPop(mig.ParPops, res.push.cost,
                                                  res.push.t)
                                ELSE mig.ParPops,
                    last |-> [acc |-> res.sc = 0, p |-> res.p,
                              on |-> res.push.on,
                              cost |-> res.ev.LastCosts,
                              t |-> IF in.DoEval THEN in.t
                                    ELSE RealToFixed(res.ev.LastValues),
                              ready |-> ~mig.b.DoInitEvals,
                              k |-> getMinDistParPop(
                                      [k \in 1 .. PushParPops |->
                                         mig.ParPops[k].CentParams],
                                      IF in.DoEval THEN in.t
                                      ELSE RealToFixed(res.ev.LastValues)).ret]]
    /\ UNCHANGED exceptMig

NextPush == PushFill \/ PushOptFill \/ PushStep

SpecPush == InitPush /\ [][NextPush]_vars

(***************************************************************************)
(* SpecFill: one CBiteOpt object with its centroid CentParams and its      *)
(* parallel populations, which setParPopCount has constructed without      *)
(* buffers; the object is initialized, stepped through its fill and        *)
(* beyond, and initialized again.  History kept with it: n, the calls of   *)
(* optimize since init; runs, the calls of init after the first one; sc,   *)
(* cost and t, what the latest step has returned and evaluated; stale, the *)
(* latest step has called getCentroid() of a population whose              *)
(* NeedCentUpdate was true.                                                *)
(***************************************************************************)
InitFill ==
    /\ \E n \in 1 .. MaxPopSize :
         mig = [op |-> "init", o |-> CoreInitObj(CoreNew(n)),
                CentParams |-> ZeroVec,
                ParPops |-> [k \in 1 .. PushParPops |->
                               [pop |-> initBuffers(0),
                                CentParams |-> ZeroVec]],
                n |-> 0, runs |-> 0, sc |-> 0, cost |-> 0, t |-> ZeroVec,
                stale |-> FALSE]
    /\ pop = initBuffers(1)
    /\ call = NoCall
    /\ bind = NoBind
    /\ feed = NoFeed
    /\ ens = NoEns
    /\ pps = NoPps
    /\ bsel = NoSel
    /\ cent = NoCent
    /\ wrap = NoWrap
    /\ par = NoPar
    /\ core = NoCore
    /\ drv = NoDrv

\* CBiteOpt::optimize, the branch DoInitEvals
FillPhaseStep ==
    /\ mig.o.DoInitEvals
    /\ \E t \in CoreWrappedSet, fv \in {0, 16} :
         \E res \in {CoreFillStep(mig.o, t, fv)} :
           mig' = [mig EXCEPT
                     !.op = "fill", !.o = res.o,
                     !.CentParams = IF res.o.DoInitEvals THEN @
                                    ELSE updateCentroid(res.o.pop).CentParams,
                     !.ParPops = IF res.o.DoInitEvals THEN @
                                 ELSE copyParPops(@, res.o.pop),
                     !.n = @ + 1, !.sc = res.sc,
                     !.cost = res.ev.LastCosts, !.t = t, !.stale = FALSE]
    /\ UNCHANGED exceptMig

\* The calls of getCentroid() of a step after the fill: on the population P
\* when the step takes generateSol3 or generateSol12, and on every
\* parallel population in calcCentroidDists, which updateParPop runs at the
\* end of the step (the step has not written to them before)
StaleRead(P, ParPops) ==
    \/ P.NeedCentUpdate
    \/ \E k \in DOMAIN ParPops : ParPops[k].pop.NeedCentUpdate

\* CBiteOpt::optimize after the fill, with updatePop on the population and
\* its centroid, and updateParPop( LastCosts[ 0 ], TmpParams ) at the end
FilledStep ==
    /\ ~mig.o.DoInitEvals
    /\ mig.n < mig.o.pop.PopSize + MaxFilledSteps
    /\ \E in \in PushInputs, fv \in {0, 16} :
       \E res \in {CoreStep(mig.o, [in EXCEPT !.fv = fv])} :
           mig' = [mig EXCEPT
                     !.op = "optimize", !.o = res.o,
                     !.CentParams =
                        updatePopCent([pop |-> mig.o.pop, CentParams |-> @],
                                      res.ev.LastCosts, in.t, 3).CentParams,
                     !.ParPops = updateParPop(@, res.ev.LastCosts, in.t),
                     !.n = @ + 1, !.sc = res.sc,
                     !.cost = res.ev.LastCosts, !.t = in.t,
                     !.stale = StaleRead(mig.o.pop, mig.ParPops)]
    /\ UNCHANGED exceptMig

\* CBiteOpt::init( rnd ): the parallel populations are left as they are
FillReinit ==
    /\ mig.op # "init"
    /\ mig.runs < MaxRuns
    /\ mig' = [mig EXCEPT !.op = "init", !.o = CoreInitObj(@),
                          !.n = 0, !.runs = @ + 1, !.sc = 0, !.cost = 0,
                          !.t = ZeroVec, !.stale = FALSE]
    /\ UNCHANGED exceptMig

NextFill == FillPhaseStep \/ FilledStep \/ FillReinit

SpecFill == InitFill /\ [][NextFill]_vars

(***************************************************************************)
(* SpecDE: the drawing of the indices PopIdx in one step after the fill of *)
(* CDEOpt::optimize or in one call of CBiteOpt::generateSol2c, for a       *)
(* current population size CurPopSize.  The variable bsel holds the        *)
(* locals: PopIdx (PopIdx[ 0 ] is PopIdx[1] here), pp, and at, the place   *)
(* of the call: "start", "loop" (while( pp < pc )), "done" (the indices    *)
(* are used); rej tells that a draw of the call was an index already in    *)
(* PopIdx.                                                                 *)
(***************************************************************************)
\* const int pc = 1 + 2 * PairCount
IdxCount == 1 + 2 * PairCount

\* The largest current population size of SpecDE: the least one with which
\* the indices are compared
DEMaxPopSize == IdxCount + 2

\* if( CurPopSize1 <= pc ): the indices are drawn without a comparison
DrawsUncheckedBad(CurPopSize) == CurPopSize - 1 < IdxCount

DrawsUnchecked(CurPopSize) == CurPopSize - 1 <= IdxCount

\* The values of si1: (int) ( r1 * r1 * CurPopSize ) in CDEOpt::optimize,
\* rnd.getPowInt( 4.0, CurPopSize / 2 ) in generateSol2c
BaseIdx(gen, CurPopSize) ==
    IF gen = "CDEOpt" THEN 0 .. CurPopSize - 1
    ELSE IF CurPopSize \div 2 = 0 THEN {0}
    ELSE 0 .. CurPopSize \div 2 - 1

InitDE ==
    /\ \E n \in 1 .. DEMaxPopSize, gen \in {"CDEOpt", "generateSol2c"} :
         bsel = [op |-> gen, CurPopSize |-> n, PopIdx |-> <<>>, pp |-> 0,
                 at |-> "start", rej |-> FALSE]
    /\ pop = initBuffers(1)
    /\ call = NoCall
    /\ bind = NoBind
    /\ mig = NoMig
    /\ feed = NoFeed
    /\ ens = NoEns
    /\ pps = NoPps
    /\ cent = NoCent
    /\ wrap = NoWrap
    /\ par = NoPar
    /\ core = NoCore
    /\ drv = NoDrv

\* PopIdx[ 0 ] = si1; int pp = 1
DEBase ==
    /\ bsel.at = "start"
    /\ \E si1 \in BaseIdx(bsel.op, bsel.CurPopSize) :
         bsel' = [bsel EXCEPT !.PopIdx = <<si1>>, !.pp = 1, !.at = "loop"]
    /\ UNCHANGED exceptSel

\* The first loop: PopIdx[ pp ] = rnd.getInt( CurPopSize ); pp++
DEDrawAny ==
    /\ bsel.at = "loop"
    /\ bsel.pp < IdxCount
    /\ DrawsUnchecked(bsel.CurPopSize)
    /\ \E sii \in 0 .. bsel.CurPopSize - 1 :
         bsel' = [bsel EXCEPT !.PopIdx = Append(@, sii), !.pp = @ + 1]
    /\ UNCHANGED exceptSel

\* The second loop, sii is in none of PopIdx[ 0 ] .. PopIdx[ pp - 1 ]:
\* PopIdx[ pp ] = sii; pp++
DEDrawFresh ==
    /\ bsel.at = "loop"
    /\ bsel.pp < IdxCount
    /\ ~DrawsUnchecked(bsel.CurPopSize)
    /\ \E sii \in 0 .. bsel.CurPopSize - 1 :
         /\ \A j \in 1 .. bsel.pp : bsel.PopIdx[j] # sii
         /\ bsel' = [bsel EXCEPT !.PopIdx = Append(@, sii), !.pp = @ + 1]
    /\ UNCHANGED exceptSel

\* The second loop, sii is one of PopIdx[ 0 ] .. PopIdx[ pp - 1 ]: break,
\* and the loop draws again
DEDrawUsed ==
    /\ bsel.at = "loop"
    /\ bsel.pp < IdxCount
    /\ ~DrawsUnchecked(bsel.CurPopSize)
    /\ \E sii \in 0 .. bsel.CurPopSize - 1 :
         /\ \E j \in 1 .. bsel.pp : bsel.PopIdx[j] = sii
         /\ bsel' = [bsel EXCEPT !.rej = TRUE]
    /\ UNCHANGED exceptSel

\* pp = pc: the loop is left and getParamsOrdered( PopIdx[ 1 + j * 2 ]),
\* getParamsOrdered( PopIdx[ 2 + j * 2 ]) are taken
DEDone ==
    /\ bsel.at = "loop"
    /\ bsel.pp >= IdxCount
    /\ bsel' = [bsel EXCEPT !.at = "done"]
    /\ UNCHANGED exceptSel

NextDE == DEBase \/ DEDrawAny \/ DEDrawFresh \/ DEDrawUsed \/ DEDone

\* rnd.getInt( CurPopSize ) yields each index again and again: a draw of an
\* index that is not in PopIdx is not put off for ever
SpecDE ==
    /\ InitDE /\ [][NextDE]_vars
    /\ WF_vars(DEBase) /\ WF_vars(DEDrawAny) /\ WF_vars(DEDrawFresh)
    /\ WF_vars(DEDone)

(***************************************************************************)
(* SpecBind: calls of minimize_func, the function _minimize of the Python  *)
(* extension, with lists of numbers as lower and upper.  bind keeps the    *)
(* arguments of the latest call and what the call has done: err, the       *)
(* message of the exception it has set ("" when it returns a result);      *)
(* constructed, it has called biteopt_minimize, which constructs the       *)
(* optimizer; called, the optimizer has called the objective function.     *)
(***************************************************************************)
\* minimize_func after PyArg_ParseTupleAndKeywords and the two loops that
\* fill the vectors lower and upper.  biteopt_minimize( lower.size(), ... )
\* constructs the optimizer and calls opt.optimize useiter times in each of
\* attc attempts; the first call evaluates the objective function.
minimize_func(lower, upper, iter, M, attc) ==
    LET returned(e, run) ==
            [op |-> "minimize", lower |-> lower, upper |-> upper,
             iter |-> iter, M |-> M, attc |-> attc, err |-> e,
             constructed |-> run,
             called |-> run /\ attc > 0 /\ useiter(iter, M) > 0]
    IN  IF Len(lower) # Len(upper)
        THEN returned("minimize: matching list lengths required", FALSE)
        ELSE IF \E i \in 1 .. Len(lower) : lower[i] > upper[i]
        THEN returned("minimize: lower should not be greater than upper",
                      FALSE)
        ELSE returned("", TRUE)

\* The lists of numbers that a caller passes as lower or upper
BindLists == UNION {[1 .. n -> 0 .. MaxBound] : n \in 0 .. MaxBindLen}

InitBind ==
    /\ bind = NoBind
    /\ pop = initBuffers(1)
    /\ call = NoCall
    /\ mig = NoMig
    /\ feed = NoFeed
    /\ ens = NoEns
    /\ pps = NoPps
    /\ bsel = NoSel
    /\ cent = NoCent
    /\ wrap = NoWrap
    /\ par = NoPar
    /\ core = NoCore
    /\ drv = NoDrv

\* _minimize( func, lower, upper, iter, Mi, attc )
BindCall ==
    /\ \E lower \in BindLists, upper \in BindLists, iter \in 0 .. 1,
          attc \in 0 .. 1 :
         bind' = minimize_func(lower, upper, iter, 1, attc)
    /\ UNCHANGED exceptBind

NextBind == BindCall

SpecBind == InitBind /\ [][NextBind]_vars

(***************************************************************************)
(* SpecStall: the loops of biteopt_minimize over the attempts and the      *)
(* steps, with the optimizer reduced to what the two stopping tests read.  *)
(* A call of opt.optimize returns 0 or one more than the call before it    *)
(* (CBiteOptDeep::optimize sets StallCount to 0 or adds one to it, and     *)
(* opt.init sets it to 0); hit tells that opt.getBestCost() <= *f_minp     *)
(* holds after the call.  drv keeps the arguments and the locals k, i,     *)
(* evals and IsFinished of the function; sc, the value that the latest     *)
(* call of opt.optimize has returned; stallStop, the stall test has ended  *)
(* the latest attempt; cuts, the number of attempts that the stall test    *)
(* has ended.                                                              *)
(***************************************************************************)
InitStall ==
    /\ \E iter \in 1 .. MaxIter, M \in 1 .. MaxDepth, attc \in 1 .. MaxAttempts,
          stopc \in 0 .. 2, hasTarget \in BOOLEAN :
         drv = [ iter |-> iter, M |-> M, attc |-> attc, stopc |-> stopc,
                 hasTarget |-> hasTarget,
                 pc |-> "attempt", k |-> 0, i |-> 0, evals |-> 0,
                 IsFinished |-> FALSE, sc |-> 0, hit |-> FALSE,
                 stallStop |-> FALSE, cuts |-> 0 ]
    /\ pop = initBuffers(1)
    /\ call = NoCall
    /\ bind = NoBind
    /\ mig = NoMig
    /\ feed = NoFeed
    /\ ens = NoEns
    /\ pps = NoPps
    /\ bsel = NoSel
    /\ cent = NoCent
    /\ wrap = NoWrap
    /\ par = NoPar
    /\ core = NoCore

\* for( k = 0; k < attc; k++ ) { opt.init( rnd ); ...
StallAttempt ==
    /\ drv.pc = "attempt"
    /\ drv.k < drv.attc
    /\ drv' = [drv EXCEPT
                 !.i = 0, !.IsFinished = FALSE, !.sc = 0, !.hit = FALSE,
                 !.stallStop = FALSE,
                 !.pc = IF 0 < useiter(drv.iter, drv.M)
                        THEN "iter" ELSE "after"]
    /\ UNCHANGED exceptDrv

\* One pass of for( i = 0; i < useiter; i++ ): opt.optimize( rnd ) and the
\* two stopping tests
StallStep ==
    /\ drv.pc = "iter"
    /\ \E stalled \in BOOLEAN,
          hit \in IF drv.hasTarget THEN BOOLEAN ELSE {FALSE} :
         LET sc == IF stalled THEN drv.sc + 1 ELSE 0
             d1 == [drv EXCEPT !.sc = sc, !.hit = hit]
         IN  drv' =
               IF drv.hasTarget /\ hit
               THEN [d1 EXCEPT !.evals = EvalsOnBreak(@),
                               !.IsFinished = TRUE, !.pc = "after"]
               ELSE IF StallReached(drv, sc)
               THEN [d1 EXCEPT !.evals = EvalsOnBreak(@), !.pc = "after",
                               !.stallStop = TRUE, !.cuts = @ + 1]
               ELSE [d1 EXCEPT !.i = @ + 1,
                               !.pc = IF drv.i + 1 < useiter(drv.iter, drv.M)
                                      THEN "iter" ELSE "after"]
    /\ UNCHANGED exceptDrv

\* After the loop over i: evals += i, then the break on IsFinished or k++
StallEndAttempt ==
    /\ drv.pc = "after"
    /\ drv' = IF drv.IsFinished
              THEN [drv EXCEPT !.evals = @ + drv.i, !.pc = "done"]
              ELSE [drv EXCEPT !.evals = @ + drv.i, !.k = @ + 1,
                               !.pc = "attempt"]
    /\ UNCHANGED exceptDrv

\* return( evals )
StallReturn ==
    /\ drv.pc = "attempt"
    /\ drv.k >= drv.attc
    /\ drv' = [drv EXCEPT !.pc = "done"]
    /\ UNCHANGED exceptDrv

NextStall == StallAttempt \/ StallStep \/ StallEndAttempt \/ StallReturn

SpecStall == InitStall /\ [][NextStall]_vars

(***************************************************************************)
(* SpecCent: one CBitePop object that is filled with vectors of equal      *)
(* cost, resized, and whose centroid is recalculated.                      *)
(***************************************************************************)
CentSample == {0, CentUnit, 2 * CentUnit}

InitCent ==
    /\ \E n \in 1 .. CentPopSize :
         cent = [op |-> "init", P |-> initBuffers(n), CentParams |-> ZeroVec]
    /\ pop = initBuffers(1)
    /\ call = NoCall
    /\ bind = NoBind
    /\ mig = NoMig
    /\ feed = NoFeed
    /\ ens = NoEns
    /\ pps = NoPps
    /\ bsel = NoSel
    /\ wrap = NoWrap
    /\ par = NoPar
    /\ core = NoCore
    /\ drv = NoDrv

CentFill ==
    /\ cent.P.CurPopPos < cent.P.PopSize
    /\ \E x \in CentSample :
         cent' = [cent EXCEPT !.op = "updatePop",
                    !.P = updatePop(cent.P, 0, [i \in Dims |-> x], FALSE, 0).pop]
    /\ UNCHANGED exceptCent

\* updateCentroid "should only be called after the population is filled".
CentUpdate ==
    /\ cent.P.CurPopPos = cent.P.PopSize
    /\ \E r \in {updateCentroid(cent.P)} :
         cent' = [op |-> "updateCentroid", P |-> r.pop,
                  CentParams |-> r.CentParams]
    /\ UNCHANGED exceptCent

CentIncr ==
    /\ cent.P.CurPopPos = cent.P.PopSize
    /\ cent.P.CurPopSize < cent.P.PopSize
    /\ cent' = [cent EXCEPT !.op = "incrCurPopSize", !.P = incrCurPopSize(@)]
    /\ UNCHANGED exceptCent

CentDecr ==
    /\ cent.P.CurPopPos = cent.P.PopSize
    /\ cent.P.CurPopSize > 1
    /\ cent' = [cent EXCEPT !.op = "decrCurPopSize", !.P = decrCurPopSize(@)]
    /\ UNCHANGED exceptCent

NextCent == CentFill \/ CentUpdate \/ CentIncr \/ CentDecr

SpecCent == InitCent /\ [][NextCent]_vars

(***************************************************************************)
(* SpecSel: one CBiteSelBase object that is reset and then used for        *)
(* selections, each of which may be followed by one incr or decr call.     *)
(* Sels[ j ] is the content of the slot vector that the pointer Sels[ j ]  *)
(* refers to, Ptr[ j ] the number b of its buffer SelBuf + b * CountSp, v  *)
(* the score of the latest incr.                                           *)
(***************************************************************************)
\* Success scores passed to incr
SelScores == {Reduce(k, 8) : k \in 0 .. 8}
SelDraws == 0 .. SelRndSteps - 1
\* Values that a read outside the slot vectors may yield
SelStray(S) == {0 - 1, S.Count}

InitSel ==
    /\ \E c \in 2 .. MaxChoices : bsel = [op |-> "new", prev |-> "new", Count |-> c]
    /\ pop = initBuffers(1)
    /\ call = NoCall
    /\ bind = NoBind
    /\ mig = NoMig
    /\ feed = NoFeed
    /\ ens = NoEns
    /\ pps = NoPps
    /\ cent = NoCent
    /\ wrap = NoWrap
    /\ par = NoPar
    /\ core = NoCore
    /\ drv = NoDrv

\* reset fills and mixes the slot vectors, calls select and clears
\* IsSelected.  What it leaves does not depend on the object's earlier
\* content, so the reset that follows the construction stands for every
\* later one.
SelReset ==
    /\ bsel.op = "new"
    /\ \E Sels \in [0 .. SlotCount - 1 -> SelMixed(bsel.Count)] :
       \E Slot \in {getPowInt(k, SlotCount) : k \in SelDraws} :
       \E Selp \in {getPowInt(k, bsel.Count * SparseMul) : k \in SelDraws} :
       \E u \in SelStray(bsel) :
         bsel' = [selSelect([op |-> "reset", prev |-> bsel.op, Count |-> bsel.Count,
                            Sels |-> Sels, Slot |-> 0, Selp |-> 0, Sel |-> 0,
                            Ptr |-> [j \in 0 .. SlotCount - 1 |-> j],
                            v |-> RInt(0),
                            IsSelected |-> FALSE], Slot, Selp, u)
                   EXCEPT !.IsSelected = FALSE]
    /\ UNCHANGED exceptSel

SelSelect ==
    /\ bsel.op \notin {"new"}
    /\ \E Slot \in {getPowInt(k, SlotCount) : k \in SelDraws} :
       \E Selp \in {getPowInt(k, CountSp(bsel)) : k \in SelDraws} :
       \E u \in SelStray(bsel) :
         bsel' = [selSelect(bsel, Slot, Selp, u)
                   EXCEPT !.op = "select", !.prev = bsel.op]
    /\ UNCHANGED exceptSel

\* incr and decr "should only be called after a prior select() calls".
SelIncr ==
    /\ bsel.op = "select"
    /\ bsel.Slot \in 0 .. SlotCount - 1 /\ bsel.Selp \in 0 .. CountSp(bsel) - 1
    /\ \E v \in SelScores :
         bsel' = [selIncr(bsel, v) EXCEPT !.op = "incr", !.prev = bsel.op,
                                          !.v = v]
    /\ UNCHANGED exceptSel

SelDecr ==
    /\ bsel.op = "select"
    /\ bsel.Slot \in 0 .. SlotCount - 1 /\ bsel.Selp \in 0 .. CountSp(bsel) - 1
    /\ bsel' = [selDecr(bsel) EXCEPT !.op = "decr", !.prev = bsel.op]
    /\ UNCHANGED exceptSel

NextSel == SelReset \/ SelSelect \/ SelIncr \/ SelDecr

SpecSel == InitSel /\ [][NextSel]_vars

(***************************************************************************)
(* SpecParPops: getMinDistParPop applied to arbitrary centroids and        *)
(* candidate vectors.                                                      *)
(***************************************************************************)
PpsVectors == [Dims -> 0 .. IntMantMult]

InitPps ==
    /\ \E n \in 1 .. MaxParPops : \E Cents \in [1 .. n -> PpsVectors] :
       \E Params \in PpsVectors :
         pps = [op |-> "init", Cents |-> Cents, Params |-> Params,
                ParValues |-> <<>>, ret |-> 0]
    /\ pop = initBuffers(1)
    /\ call = NoCall
    /\ bind = NoBind
    /\ mig = NoMig
    /\ feed = NoFeed
    /\ ens = NoEns
    /\ cent = NoCent
    /\ bsel = NoSel
    /\ wrap = NoWrap
    /\ par = NoPar
    /\ core = NoCore
    /\ drv = NoDrv

PpsNearest ==
    /\ \E r \in {getMinDistParPop(pps.Cents, pps.Params)} :
         pps' = [pps EXCEPT !.op = "getMinDistParPop",
                            !.ParValues = r.ParValues, !.ret = r.ret]
    /\ UNCHANGED exceptPps

\* another candidate vector
PpsCandidate ==
    /\ \E Params \in PpsVectors \ {pps.Params} :
         pps' = [pps EXCEPT !.op = "candidate", !.Params = Params]
    /\ UNCHANGED exceptPps

NextPps == PpsNearest \/ PpsCandidate

SpecParPops == InitPps /\ [][NextPps]_vars

(***************************************************************************)
(* Claims on CBitePop                                                      *)
(***************************************************************************)
StoredAt(P, k) == P.Slots[P.PopParams[k]].Stored

FirstNotBelow(P, c) ==
    CHOOSE k \in 0 .. P.PopSize - 1 :
        /\ RankAt(P, k) >= c
        /\ \A j \in 0 .. k - 1 : RankAt(P, j) < c

WorstRank(P) == RankAt(P, P.PopSize - 1)

IsFullUpdate == call'.op = "updatePop" /\ pop.CurPopPos = pop.PopSize

InWrapRange(x) == RLe(wrap.minv, x) /\ RLe(x, wrap.maxv)

C8_EvaluatedInsideBounds ==
    par.ev.by \in {"fill", "gen", "ParOpt"} =>
        \A d \in Dims :
            /\ RLe(par.MinValues[d], par.ev.NewValues[d])
            /\ RLe(par.ev.NewValues[d], par.MaxValues[d])

(***************************************************************************)
(* Claims on CBiteOpt                                                      *)
(***************************************************************************)
BestPair(o) == [LastCosts |-> o.BestCost, LastValues |-> o.BestValues]

C10_ActiveSizeRange ==
    core.role # "none" =>
        /\ core.o.pop.PopSize \div 2 <= core.o.pop.CurPopSize
        /\ core.o.pop.CurPopSize <= core.o.pop.PopSize
        /\ core.o.pop.PopSize = core.cap
        /\ DOMAIN core.o.pop.PopParams = 0 .. core.cap
        /\ DOMAIN core.o.pop.Slots = 0 .. core.cap

\* The active size has been decreased to half of the capacity by an
\* accepted step
C10_Witness ==
    /\ core.role # "none"
    /\ core.o.pop.PopSize = MaxPopSize
    /\ core.o.pop.CurPopSize = MaxPopSize \div 2
    /\ core.o.pop.CurPopSize < core.o.pop.PopSize
    /\ core.o.StallCount = 0
    /\ ~core.o.DoInitEvals
(***************************************************************************)
(* Claims on biteopt_minimize                                              *)
(***************************************************************************)
StoredRanks(o) ==
    {o.pop.Slots[j].Rank : j \in {n \in DOMAIN o.pop.Slots : o.pop.Slots[n].Stored}}

\* C4: when the objective function has returned NaN at every call and at
\* least one step has been made, every cost stored in a population is
\* 1e300, the best cost of the ensemble is 1e300 and its best vector is a
\* vector that was handed to the objective function; so are the cost and
\* the vector that biteopt_minimize returns.
C4_AllNaN ==
    (drv.pc # "none" /\ drv.allNaN /\ drv.steps >= 1) =>
        /\ \A j \in DOMAIN drv.opt.Opts :
              StoredRanks(drv.opt.Opts[j]) \subseteq {CostNaNFix}
        /\ drv.auxFix
        /\ getBestCost(drv.opt) = CostNaNFix
        /\ getBestParams(drv.opt) \in drv.evald
        /\ drv.pc = "done" => (drv.minf = CostNaNFix /\ drv.x \in drv.evald)

\* A call with two objects and two attempts has returned after NaN only,
\* with a step of an embedded optimizer among its steps
C4_Witness ==
    /\ drv.pc = "done"
    /\ drv.allNaN
    /\ drv.M = 2
    /\ drv.k = 2
    /\ drv.steps >= 4
    /\ drv.evald \cap [Dims -> AuxSample] # {}

\* C5: every step calls the objective function exactly once, and the value
\* that biteopt_minimize returns is the number of steps made in all
\* attempts.
C5_EvalCount ==
    drv.pc # "none" =>
        /\ drv.calls = drv.steps
        /\ drv.pc = "done" => drv.evals = drv.steps

\* A call has returned on the target in its second attempt, after a first
\* attempt that ended on the stall count
C5_Witness ==
    /\ drv.pc = "done"
    /\ drv.stallStop
    /\ drv.hit
    /\ drv.k = 1
    /\ drv.steps > useiter(drv.iter, drv.M)

\* C6: after a step that ends with the best cost of the ensemble at or
\* below the target no further step is made, and biteopt_minimize returns
\* with minf at or below the target and, unless that step was the last step
\* of the last attempt, a count below attc * useiter.
C6_TargetExit ==
    [][/\ drv.pc # "none" /\ drv.hit => drv'.steps = drv.steps
       /\ (drv'.pc = "done" /\ drv'.hit) =>
             /\ drv'.minf <= drv'.target
             /\ drv'.evals < drv'.attc * useiter(drv'.iter, drv'.M)
                  \/ drv'.hitLast]_vars

\* A call of two attempts has returned on the target in the first one
C6_Witness ==
    /\ drv.pc = "done"
    /\ drv.hit
    /\ ~drv.hitLast
    /\ drv.attc = 2
    /\ drv.k = 0
    /\ drv.steps >= 2
    /\ drv.evals = drv.steps

\* C7: on return minf is the least of the best costs of the ensemble at the
\* ends of the attempts made, and x is the best vector of the ensemble at
\* the end of an attempt with that cost.
C7_BestOfAttempts ==
    drv.pc = "done" =>
        /\ drv.ends # {}
        /\ \A e \in drv.ends : drv.minf <= e.cost
        /\ [cost |-> drv.minf, values |-> drv.x] \in drv.ends

\* A call has returned the result of its first attempt after a second
\* attempt that ended with a higher best cost
C7_Witness ==
    /\ drv.pc = "done"
    /\ drv.k = 2
    /\ drv.minf < getBestCost(drv.opt)
    /\ getBestCost(drv.opt) < CostNaNFix

(***************************************************************************)
(* Claims on the centroid, the selectors and the parallel populations      *)
(***************************************************************************)
\* Sum of coordinate i over the first n vectors of the population
RECURSIVE SumActive(_, _, _)
SumActive(P, n, i) ==
    IF n = 0 THEN 0 ELSE ParamsAt(P, n - 1)[i] + SumActive(P, n - 1, i)

\* Number of sums that updateCentroid scales and truncates
Truncations(P) ==
    IF P.PopSize <= BatchCount THEN 1
    ELSE (P.PopSize + BatchCount - 1) \div BatchCount

\* C11: after updateCentroid, every coordinate of the centroid is the
\* arithmetic mean of that coordinate over the CurPopSize active vectors, up
\* to the truncation of the scaled sums (less than one unit per truncation),
\* on the single-pass path and on the batched path.
C11_CentroidIsMean ==
    cent.op = "updateCentroid" =>
        \A i \in Dims :
            Abs(cent.CentParams[i] * cent.P.CurPopSize
                    - SumActive(cent.P, cent.P.CurPopSize, i))
                < cent.P.CurPopSize * Truncations(cent.P)

\* C12: after reset, whatever select, incr and decr calls follow (each incr
\* or decr after a select), whatever the success scores and the random
\* draws, select returns a choice in [0, Count) that it read at a slot in
\* [0, SlotCount) and a position in [0, Count * SparseMul), and the slot
\* vectors hold choices in [0, Count) only.
C12_SelectInRange ==
    bsel.op \notin {"none", "new"} =>
        /\ bsel.Sel \in 0 .. bsel.Count - 1
        /\ bsel.Slot \in 0 .. SlotCount - 1
        /\ bsel.Selp \in 0 .. CountSp(bsel) - 1
        /\ \A j \in 0 .. SlotCount - 1 : \A q \in 0 .. CountSp(bsel) - 1 :
              bsel.Sels[j][q] \in 0 .. bsel.Count - 1

\* a selection at the last position of the last slot vector, made after an
\* incr or decr call
C12_Witness ==
    /\ bsel.op = "select" /\ bsel.prev \in {"incr", "decr"}
    /\ bsel.Slot = SlotCount - 1
    /\ bsel.Selp = CountSp(bsel) - 1

\* Squared distance of the candidate vector to the centroid of the parallel
\* population k (k from 0)
CentDist(k) == SqDist(pps.Cents[k + 1], pps.Params, 1)

\* The parallel populations whose centroid is nearest to the candidate
NearestPops ==
    {k \in 0 .. Len(pps.Cents) - 1 :
        \A j \in 0 .. Len(pps.Cents) - 1 : CentDist(k) <= CentDist(j)}

\* C13: getMinDistParPop returns an index whose centroid has the minimum
\* squared distance to the candidate, and the lowest such index when several
\* centroids are at that distance.
C13_NearestLowestTie ==
    pps.op = "getMinDistParPop" =>
        /\ pps.ret \in NearestPops
        /\ \A k \in NearestPops : pps.ret <= k

\* C13 as the code has it: getMinDistParPop returns an index whose centroid
\* has the minimum squared distance to the candidate, and the highest such
\* index when several centroids are at that distance.
C13_NearestHighestTie ==
    pps.op = "getMinDistParPop" =>
        /\ pps.ret \in NearestPops
        /\ \A k \in NearestPops : pps.ret >= k

\* several centroids at the minimum distance, one of them in the second
\* group of four, and a centroid that is farther
C13_Witness ==
    /\ pps.op = "getMinDistParPop"
    /\ Cardinality(NearestPops) >= 2
    /\ NearestPops # 0 .. Len(pps.Cents) - 1
    /\ pps.ret >= 4

(***************************************************************************)
(* Claims on CBiteOptDeep                                                  *)
(***************************************************************************)
\* C14: in a CBiteOptDeep of more than one object, after init and after any
\* sequence of optimize calls, PushOpt is not CurOpt.
C14_PushNotCurrent ==
    ens.op \in {"init", "optimize"} => ens.opt.PushOpt # ens.opt.CurOpt

\* three objects, after a call of optimize that has moved the roles
C14_Witness ==
    /\ ens.op = "optimize"
    /\ ens.opt.OptCount = 3
    /\ ens.pre.CurOpt # ens.opt.CurOpt
    /\ ens.opt.PushOpt = ens.pre.CurOpt

\* C15: in a CBiteOptDeep of more than one object, a call of optimize in
\* which the object stepped returns a non-zero stall count makes the former
\* PushOpt the CurOpt, takes a PushOpt that is not the new CurOpt and adds
\* one to StallCount; a call in which it returns 0 leaves CurOpt and PushOpt
\* as they were and sets StallCount to 0.
C15_RotationOnStall ==
    ens.op = "optimize" =>
        IF ens.csc # 0
        THEN /\ ens.opt.CurOpt = ens.pre.PushOpt
             /\ ens.opt.PushOpt # ens.opt.CurOpt
             /\ ens.opt.StallCount = ens.pre.StallCount + 1
        ELSE /\ ens.opt.CurOpt = ens.pre.CurOpt
             /\ ens.opt.PushOpt = ens.pre.PushOpt
             /\ ens.opt.StallCount = 0

\* three objects: the second object, made the current one by a first stall,
\* has returned a non-zero stall count
C15_Witness ==
    /\ ens.op = "optimize"
    /\ ens.opt.OptCount = 3
    /\ ens.csc # 0
    /\ ens.pre.CurOpt # 0
    /\ ens.opt.StallCount = 1

\* The lowest best cost of the objects of the set J
MinBestCost(opt, J) ==
    CHOOSE c \in {opt.Opts[j].BestCost : j \in J} :
        \A j \in J : c <= opt.Opts[j].BestCost

\* C16: after init and any sequence of optimize calls, the best cost that
\* the CBiteOptDeep reports (the best cost of BestOpt) is the minimum of the
\* best costs of all its objects, and the best vector it reports is the best
\* vector of that object.
C16_BestIsMinimum ==
    ens.op \in {"init", "optimize"} =>
        /\ getBestCost(ens.opt)
              = MinBestCost(ens.opt, 0 .. ens.opt.OptCount - 1)
        /\ getBestParams(ens.opt) = ens.opt.Opts[ens.opt.BestOpt].BestValues

\* C16 for every objective function: the best cost reported is the minimum
\* of the best costs of the objects stepped since init (the initial best
\* cost 1e300 of all objects before the first step), and it is the minimum
\* over all objects as long as no cost above 1e300 has become a best cost.
C16_BestIsMinimumOfStepped ==
    ens.op \in {"init", "optimize"} =>
        /\ getBestCost(ens.opt)
              = IF ens.stepped = {} THEN CostNaNFix
                ELSE MinBestCost(ens.opt, ens.stepped)
        /\ (\A j \in ens.stepped : ens.opt.Opts[j].BestCost <= CostNaNFix)
              => getBestCost(ens.opt)
                   = MinBestCost(ens.opt, 0 .. ens.opt.OptCount - 1)
        /\ getBestParams(ens.opt) = ens.opt.Opts[ens.opt.BestOpt].BestValues

\* three objects, two of them stepped, the best cost reported is that of
\* the second and lower than that of the first
C16_Witness ==
    /\ ens.op = "optimize"
    /\ ens.opt.OptCount = 3
    /\ ens.opt.BestOpt # 0
    /\ getBestCost(ens.opt) < ens.opt.Opts[0].BestCost
    /\ ens.opt.Opts[0].BestCost < CostNaNFix

(***************************************************************************)
(* Claims on the steps of CBiteOpt                                         *)
(***************************************************************************)
\* The transition is a call of optimize after the fill
IsFeedStep == ~feed.o.DoInitEvals /\ feed'.op = "optimize"

HoldsSolution(P, c, t) ==
    \E k \in 0 .. P.PopSize - 1 :
       StoredAt(P, k) /\ RankAt(P, k) = c /\ ParamsAt(P, k) = t

\* C18 as stated: whenever a step of optimize accepts a candidate and a
\* sibling object was supplied, the candidate is inserted into the
\* sibling's population and into the sibling's nearest parallel population
\* during the same step.
C18_AcceptedIsPushed ==
    mig.op = "optimize" /\ mig.last.acc =>
        /\ HoldsSolution(mig.b.pop, mig.last.cost, mig.last.t)
        /\ HoldsSolution(mig.ParPops[mig.last.k + 1].pop, mig.last.cost,
                         mig.last.t)

\* updatePop of the pushed candidate on the population P0 gives P1: the
\* candidate is stored unless its cost is above the worst rank of P0, and
\* then P0 is left as it was
OfferedTo(P0, P1, c, t) ==
    IF c > WorstRank(P0) THEN P1 = P0 ELSE HoldsSolution(P1, c, t)

\* C18: a step of optimize pushes its candidate exactly when it has
\* accepted it at an index above 1 and the sibling object has left its
\* fill; the pushed candidate is handed to updatePop of the sibling's
\* population and of the sibling's parallel population nearest to it, which
\* store it unless its cost is above their worst rank; the other parallel
\* populations, and the sibling when nothing is pushed, stay as they were.
C18_PushedWhenBelowSecond ==
    [][mig'.op = "optimize" =>
        LET l == mig'.last
        IN  /\ l.on <=> l.acc /\ l.ready /\ l.p > 1
            /\ l.ready <=> ~mig.b.DoInitEvals
            /\ l.acc <=> l.p <= mig.a.pop.CurPopSize - 1
            /\ l.on =>
                 /\ OfferedTo(mig.b.pop, mig'.b.pop, l.cost, l.t)
                 /\ OfferedTo(mig.ParPops[l.k + 1].pop,
                              mig'.ParPops[l.k + 1].pop, l.cost, l.t)
                 /\ \A j \in 1 .. PushParPops :
                      SqDist(mig.ParPops[l.k + 1].CentParams, l.t, 1) <=
                          SqDist(mig.ParPops[j].CentParams, l.t, 1)
                 /\ \A k \in 1 .. PushParPops :
                      k # l.k + 1 => mig'.ParPops[k] = mig.ParPops[k]
            /\ ~l.on => mig'.b = mig.b /\ mig'.ParPops = mig.ParPops
      ]_vars

\* A step has pushed a candidate that the sibling's population and its
\* nearest parallel population have stored, the parallel populations having
\* different centroids
C18_Witness ==
    /\ mig.op = "optimize"
    /\ mig.last.on
    /\ HoldsSolution(mig.b.pop, mig.last.cost, mig.last.t)
    /\ HoldsSolution(mig.ParPops[mig.last.k + 1].pop, mig.last.cost,
                     mig.last.t)
    /\ mig.last.k = 0
    /\ mig.ParPops[1].CentParams # mig.ParPops[2].CentParams


(***************************************************************************)
(* Claims on minimize_func (SpecBind)                                      *)
(***************************************************************************)
\* The preconditions that the call violates
BindViolations ==
    (IF Len(bind.lower) <= 0 THEN {"N <= 0"} ELSE {}) \cup
    (IF Len(bind.lower) # Len(bind.upper) THEN {"lengths"} ELSE {}) \cup
    (IF \E i \in DOMAIN bind.lower \cap DOMAIN bind.upper :
           bind.lower[i] > bind.upper[i]
     THEN {"lower > upper"} ELSE {})

\* C19: a call of minimize with N <= 0 (empty bounds), with lower and upper
\* of different lengths, or with lower[i] > upper[i] for some i returns an
\* error without constructing an optimizer and without calling the
\* objective function.
C19_ViolationsRejected ==
    bind.op = "minimize" /\ BindViolations # {} =>
        bind.err # "" /\ ~bind.constructed /\ ~bind.called


(***************************************************************************)
(* Claims on the stall test of biteopt_minimize (SpecStall)                *)
(***************************************************************************)
\* 128 * N * s, with StallUnit for 64
StallThreshold == 2 * StallUnit * ParamCount * drv.stopc

\* C20: with stopc 1 or 2 the attempt stops at the first step of optimize
\* that returns a stall count of 128 * N * stopc or more, and with stopc 0
\* the stall count never ends an attempt; an attempt that the stall test
\* has ended is followed by the next attempt when one remains, and only a
\* reached target ends the whole run.
C20_StallEndsAttemptOnly ==
    [][/\ drv.pc = "iter" =>
            /\ drv.stopc \in {1, 2} =>
                 /\ drv.sc < StallThreshold
                 /\ drv'.sc >= StallThreshold => drv'.pc = "after"
            /\ drv'.stallStop =>
                 /\ drv.stopc # 0
                 /\ drv'.sc >= StallThreshold
                 /\ ~drv'.IsFinished
            /\ drv'.IsFinished <=> drv.hasTarget /\ drv'.hit
            /\ drv'.pc = "after" /\ ~drv'.stallStop /\ ~drv'.IsFinished =>
                 drv'.i = useiter(drv.iter, drv.M)
       /\ drv.pc = "after" =>
            /\ drv.stallStop => drv'.pc = "attempt" /\ drv'.k = drv.k + 1
            /\ drv'.pc = "done" <=> drv.IsFinished
       /\ drv.pc = "attempt" =>
            /\ drv.k < drv.attc =>
                 drv'.pc = "iter" /\ drv'.k = drv.k /\ drv'.sc = 0
            /\ drv'.pc = "done" <=> drv.k >= drv.attc
      ]_vars

\* With stopc 2 the stall test has ended the first attempt and the second
\* attempt is under way
C20_Witness ==
    /\ drv.pc = "iter"
    /\ drv.stopc = 2
    /\ drv.k = 1
    /\ drv.cuts = 1
    /\ drv.i > 0


(***************************************************************************)
(* Claims on the record slots of CBitePop (SpecPop)                        *)
(***************************************************************************)
\* C29: after initBuffers and any sequence of updatePop and removeSol calls
\* the index array PopParams[ 0 .. PopSize ] is a permutation of the
\* PopSize + 1 storage slots, and the temporary slot stays at the index
\* PopSize.
C29_SlotsPermuted ==
    /\ DOMAIN pop.PopParams = 0 .. pop.PopSize
    /\ {pop.PopParams[k] : k \in 0 .. pop.PopSize} = 0 .. pop.PopSize
    /\ \A j, k \in 0 .. pop.PopSize :
         pop.PopParams[j] = pop.PopParams[k] => j = k
    /\ pop.PopParams[pop.PopSize] = pop.PopSize

\* removeSol has moved a record down in a population whose slots updatePop
\* had put out of their first order
C29_Witness ==
    /\ call.op = "removeSol"
    /\ call.p < pop.CurPopPos
    /\ pop.PopSize = MaxPopSize
    /\ \E k \in 0 .. pop.PopSize - 1 : pop.PopParams[k] # k
    /\ \A k \in 0 .. pop.PopSize - 1 : StoredAt(pop, k)


(***************************************************************************)
(* Claims on the replacement in place of CBitePop::updatePop (SpecTie)     *)
(***************************************************************************)
\* The call updatePop( c, v, dc, thr ) on the full population finds the
\* record at the index p of its binary search equal in rank to c, within
\* the first CurPopSize * thr / 8 records, and farther from the best record
\* than v
IsTie(P, c, v, thr) ==
    LET p == FirstNotBelow(P, c)
    IN  /\ isEqual(c, RankAt(P, p))
        /\ p < (P.CurPopSize * thr) \div 8
        /\ SqDist(ParamsAt(P, p), ParamsAt(P, 0), 1) >
               SqDist(v, ParamsAt(P, 0), 1)

\* C24: on a full population, when the record at the binary-search position
\* p has a rank equal to the candidate's cost, p is within the first
\* CurPopSize * thr / 8 records and that record is farther from the best
\* record than the candidate, updatePop overwrites the record at p in place
\* (every other record keeps its index and content, the worst record
\* stays); otherwise the candidate is spliced in at p and the previous worst
\* record is evicted.  The record at index 0 is never overwritten in place.
C24_TieReplacedInPlace ==
    [][call'.op = "updatePop" /\ pop.CurPopPos = pop.PopSize
         /\ call'.UpdCost <= WorstRank(pop) =>
        LET c == call'.UpdCost
            v == call'.UpdParams
            n == pop.PopSize
            p == FirstNotBelow(pop, c)
            rec == [Rank |-> c, Params |-> v, Stored |-> TRUE]
        IN  IF IsTie(pop, c, v, call'.thr)
            THEN /\ p # 0
                 /\ pop'.PopParams = pop.PopParams
                 /\ pop'.Slots[pop.PopParams[p]] = rec
                 /\ \A k \in 0 .. n :
                      k # p => pop'.Slots[pop.PopParams[k]] =
                                   pop.Slots[pop.PopParams[k]]
            ELSE /\ pop'.PopParams[p] = pop.PopParams[n - 1]
                 /\ pop'.Slots[pop'.PopParams[p]] = rec
                 /\ \A k \in 0 .. n :
                      /\ k < p \/ k = n => pop'.PopParams[k] = pop.PopParams[k]
                      /\ k > p /\ k < n =>
                           pop'.PopParams[k] = pop.PopParams[k - 1]
                      /\ k # n - 1 => pop'.Slots[pop.PopParams[k]] =
                                          pop.Slots[pop.PopParams[k]]
      ]_vars

\* updatePop has replaced the record at index 1 in place: the record at
\* index 2 has kept its slot and the record at index 1 holds the candidate
C24_Witness ==
    /\ call.op = "updatePop"
    /\ call.full
    /\ call.ret = pop.PopSize
    /\ call.thr = 8
    /\ pop.PopSize = TiePopSize
    /\ call.UpdCost = RankAt(pop, 1)
    /\ call.UpdParams = ParamsAt(pop, 1)
    /\ ParamsAt(pop, 1) = ParamsAt(pop, 0)
    /\ RankAt(pop, 1) < RankAt(pop, 2)
    /\ RankAt(pop, 0) < RankAt(pop, 1)


(***************************************************************************)
(* Claims on CBiteSelBase::incr and the slot vectors (SpecSel)             *)
(***************************************************************************)
\* floor( Selp * v * v ) for the score v = <<n, d>>
IncrShift(Selp, v) == (Selp * v[1] * v[1]) \div (v[2] * v[2])

\* C23: incr( v ) after a select that picked the position Selp of the slot
\* vector Slot moves the chosen choice to the position
\* Selp - floor( Selp * v * v ), moves the entries formerly at the positions
\* from there up to Selp - 1 back by one, and leaves every other position of
\* every slot vector as it was; then the slot vector is exchanged with the
\* vector at Slot - 1 when Slot > 0, and the slot order stays when Slot = 0.
C23_IncrMovesChoice ==
    [][bsel'.op = "incr" =>
        LET Slot == bsel.Slot
            Selp == bsel.Selp
            np == Selp - IncrShift(Selp, bsel'.v)
            old == bsel.Sels[Slot]
            new == [q \in DOMAIN old |->
                      IF q = np THEN old[Selp]
                      ELSE IF q > np /\ q <= Selp THEN old[q - 1]
                      ELSE old[q]]
        IN  /\ bsel.Sel = old[Selp]
            /\ \A j \in 0 .. SlotCount - 1 :
                 bsel'.Sels[j] =
                    IF Slot > 0 /\ j = Slot - 1 THEN new
                    ELSE IF Slot > 0 /\ j = Slot THEN bsel.Sels[Slot - 1]
                    ELSE IF j = Slot THEN new
                    ELSE bsel.Sels[j]
            /\ \A j \in 0 .. SlotCount - 1 :
                 bsel'.Ptr[j] =
                    IF Slot > 0 /\ j = Slot - 1 THEN bsel.Ptr[Slot]
                    ELSE IF Slot > 0 /\ j = Slot THEN bsel.Ptr[Slot - 1]
                    ELSE bsel.Ptr[j]
      ]_vars

\* incr has moved the choice by more than one position in a slot vector
\* that is not the first one, past an entry of another choice
C23_Witness ==
    /\ bsel.op = "incr"
    /\ bsel.Slot > 0
    /\ IncrShift(bsel.Selp, bsel.v) > 1
    /\ bsel.Sels[bsel.Slot - 1][bsel.Selp] # bsel.Sel
    /\ bsel.Sels[bsel.Slot - 1][bsel.Selp - IncrShift(bsel.Selp, bsel.v)]
          = bsel.Sel

\* C28: after reset, when every incr or decr follows a select, each slot
\* vector holds every choice of 0 .. Count - 1 exactly SparseMul times, and
\* the slot pointers are a permutation of the SlotCount buffers.
C28_SlotsFixedMultiset ==
    bsel.op # "new" =>
        /\ \A j \in 0 .. SlotCount - 1 :
             /\ DOMAIN bsel.Sels[j] = 0 .. bsel.Count * SparseMul - 1
             /\ \A c \in 0 .. bsel.Count - 1 :
                  Cardinality({q \in DOMAIN bsel.Sels[j] : bsel.Sels[j][q] = c})
                      = SparseMul
        /\ {bsel.Ptr[j] : j \in 0 .. SlotCount - 1} = 0 .. SlotCount - 1

\* incr and decr have exchanged slot pointers and moved entries: the slot
\* pointers are out of their first order after a decr
C28_Witness ==
    /\ bsel.op = "decr"
    /\ bsel.prev = "select"
    /\ bsel.Ptr[0] # 0
    /\ bsel.Sels[0] # bsel.Sels[1]
    /\ bsel.Selp < bsel.Count * SparseMul - 1


(***************************************************************************)
(* Claims on ApplySels (SpecFeed)                                          *)
(***************************************************************************)
PopChangeSels == {"PopChangeIncrSel", "PopChangeDecrSel"}

C30_PushIntoFilledOnly ==
    [][mig'.op = "optimize" /\ mig'.last.on =>
        /\ ~mig.b.DoInitEvals
        /\ mig.b.pop.CurPopPos = mig.b.pop.PopSize
        /\ ~mig.b.pop.NeedCentUpdate
        /\ \A k \in 1 .. PushParPops :
             /\ mig.ParPops[k].pop.CurPopPos = mig.ParPops[k].pop.PopSize
             /\ ~mig.ParPops[k].pop.NeedCentUpdate
        /\ mig'.b.BestCost = mig.b.BestCost
        /\ mig'.b.BestValues = mig.b.BestValues
        /\ mig'.b.StallCount = mig.b.StallCount
        /\ mig'.b = [mig.b EXCEPT !.pop = mig'.b.pop]
        /\ Cardinality({k \in 1 .. PushParPops :
                          mig'.ParPops[k] # mig.ParPops[k]}) <= 1
      ]_vars

\* PushOpt has stored a pushed candidate whose cost is below its own best
\* cost, and so has one of its parallel populations
C30_Witness ==
    /\ mig.op = "optimize"
    /\ mig.last.on
    /\ mig.last.cost < mig.b.BestCost
    /\ RankAt(mig.b.pop, 0) = mig.last.cost
    /\ ParamsAt(mig.b.pop, 0) = mig.last.t
    /\ \E k \in 1 .. PushParPops :
          RankAt(mig.ParPops[k].pop, 0) = mig.last.cost


(***************************************************************************)
(* Claims on the fill of CBiteOpt (SpecFill)                               *)
(***************************************************************************)
\* The record at the index i of the population P
RecordAt(P, i) == <<RankAt(P, i), ParamsAt(P, i)>>

\* C21: after init exactly the first PopSize calls of optimize are fill
\* steps; each returns 0 and adds one evaluated record; at the end of the
\* last one the centroid of the population is computed and every parallel
\* population is a copy of the population (same records in the same order,
\* same centroid, NeedCentUpdate false); no later call is a fill step until
\* the next init.
C21_FillThenCopies ==
    [][LET P0 == mig.o.pop
           P1 == mig'.o.pop
       IN  /\ mig'.op = "init" =>
                mig'.n = 0 /\ mig'.o.DoInitEvals /\ P1.CurPopPos = 0
           /\ mig'.op # "init" =>
                /\ mig'.n = mig.n + 1
                /\ mig'.op = "fill" <=> mig.n < P0.PopSize
                /\ mig'.o.DoInitEvals <=> mig'.n < P0.PopSize
           /\ mig'.op = "fill" =>
                /\ mig'.sc = 0
                /\ P1.CurPopPos = mig'.n
                /\ \E p \in 0 .. mig.n :
                     /\ RecordAt(P1, p) = <<mig'.cost, mig'.t>>
                     /\ \A i \in 0 .. mig.n - 1 :
                          RecordAt(P0, i) =
                             RecordAt(P1, IF i < p THEN i ELSE i + 1)
                /\ IF mig'.n < P0.PopSize
                   THEN mig'.ParPops = mig.ParPops
                   ELSE /\ ~P1.NeedCentUpdate
                        /\ mig'.CentParams = updateCentroid(P1).CentParams
                        /\ \A k \in 1 .. PushParPops :
                             LET Q == mig'.ParPops[k].pop
                             IN  /\ Q.PopSize = P1.PopSize
                                 /\ Q.CurPopPos = P1.CurPopPos
                                 /\ Q.CurPopSize = P1.CurPopSize
                                 /\ ~Q.NeedCentUpdate
                                 /\ \A i \in 0 .. P1.PopSize - 1 :
                                      RecordAt(Q, i) = RecordAt(P1, i)
                                 /\ mig'.ParPops[k].CentParams
                                       = mig'.CentParams
      ]_vars

\* the second fill of an object has ended: its parallel populations, which
\* held the records of the first run in another order of the buffers, hold
\* its two different records in its order, and its centroid
C21_Witness ==
    /\ mig.op = "fill"
    /\ mig.runs = 1
    /\ ~mig.o.DoInitEvals
    /\ mig.o.pop.PopSize = MaxPopSize
    /\ RecordAt(mig.o.pop, 0) # RecordAt(mig.o.pop, 1)
    /\ mig.CentParams # ZeroVec
    /\ mig.ParPops[1].pop.PopParams # mig.o.pop.PopParams
    /\ mig.ParPops[1].pop.PopParams # mig.ParPops[2].pop.PopParams


(***************************************************************************)
(* Claims on the evaluation cycles of CSpherOpt (SpecPar)                  *)
(***************************************************************************)
\* The least integer that is not below n * f, f = <<numerator, denominator>>
CycleLength(n, f) ==
    CHOOSE m \in 0 .. 3 * n : /\ m * f[2] >= n * f[1]
                              /\ (m - 1) * f[2] < n * f[1]

\* C25: a cycle of CSpherOpt has curem = ceil( CurPopSize * EvalFac ) calls
\* of optimize, EvalFac being 2.0 after init and then the value that the
\* update at the start of the cycle has picked of 2.1, 2.0 and 1.9; between
\* the calls 0 <= cure < curem; the call that ends a cycle sets cure and
\* CurPopPos to 0; HiBound does not grow from one call to the next of an
\* object that is not initialized again.  (A transition that leaves the
\* fill position of the CBiteOpt object at PopSize and the latest
\* evaluation with ParOpt is a call of ParOpt.optimize.)
C25_CycleLength ==
    [][par'.ev.by = "ParOpt" /\ par'.CurPopPos = par'.PopSize =>
        LET o == par.ParOpt
            o1 == par'.ParOpt
        IN  /\ 0 <= o1.cure /\ o1.cure < o1.curem
            /\ o1.curem = CycleLength(o1.pop.CurPopSize, o1.EvalFac)
            /\ o1.pop.CurPopSize = o1.pop.PopSize
            /\ IF o1.DoInitEvals
               THEN o1.cure = 0 /\ o1.EvalFac = RInt(2)
               ELSE /\ RLe(o1.HiBound, o.HiBound)
                    /\ IF o.cure + 1 < o.curem
                       THEN /\ o1.cure = o.cure + 1
                            /\ o1.curem = o.curem
                            /\ o1.EvalFac = o.EvalFac
                            /\ o1.HiBound = o.HiBound
                       ELSE /\ o.cure + 1 = o.curem
                            /\ o1.cure = 0
                            /\ o1.pop.CurPopPos = 0
                            /\ \E k \in 1 .. 3 : o1.EvalFac = EvalFacs[k]
      ]_vars

\* the second call of a cycle of three calls, which the factor 2.1 gives,
\* after a cycle that has lowered HiBound
C25_Witness ==
    /\ par.ev.by = "ParOpt"
    /\ par.ParOpt.cure = 2
    /\ par.ParOpt.curem = 3
    /\ par.ParOpt.EvalFac = EvalFacs[1]
    /\ RLt(par.ParOpt.HiBound, RInt(CostNaNFix))


PairwiseDistinct(PopIdx) ==
    \A i, j \in DOMAIN PopIdx : i # j => PopIdx[i] # PopIdx[j]

====
